---- MODULE Spec2Model ----
(***************************************************************************)
(* Ledger of the per-coin-balance server: users with per-coin balances,    *)
(* deposit / withdraw requests, internal transfers, the admin approval     *)
(* endpoints and the membership payout scheduler.  Every handler runs to   *)
(* completion before the next request is served.                           *)
(***************************************************************************)
EXTENDS Integers, Sequences, FiniteSets, TLC

\* ---------------------------------------------------------------- bounds
\* transactions recorded over a run of the ledger specification
MaxLedger == 4
\* deposit and withdraw requests among them
MaxRequests == 2
\* memberships created over a run
MaxMemberships == 2
\* largest balance of a deposited coin an approval may produce
MaxBalance == 2
\* clock instants per calendar day
TicksPerDay == 2
\* last instant the server clock reaches in the ledger specification
MaxTick == 1
\* membership purchases in the payout specification
MaxPurchases == 1
\* last instant the server clock reaches in the payout specification
MaxPayoutTick == 13
\* scheduler runs in flight at the same time
MaxRuns == 2
\* last instant the server clock reaches with overlapping scheduler runs
MaxOverlapTick == 10
MaxApprovals == 2
MaxRaceRequests == 3
MaxFailLedger == 5
MaxFailTick == 2
MaxFailPurchases == 2
MaxScalarLedger == 3
MaxScalarBalance == 3
MaxMixLedger == 4
MaxPending == 2
MaxIntervals == 3

\* ------------------------------------------------------- program constants
COINS == {"BTC", "ETH", "USDT", "BNB", "ADA", "USD"}

\* mutant: USD is accepted as a deposit coin
ALLOWED_WithUSD == COINS

ALLOWED == {"BTC", "ETH", "USDT", "BNB", "ADA"}

\* TIERS[t].price is read by no handler and is left out
TIERS ==
  [V1 |-> [daily |-> 10,    duration |-> 5,  bonus |-> 50],
   V2 |-> [daily |-> 100,   duration |-> 7,  bonus |-> 3000],
   V3 |-> [daily |-> 10000, duration |-> 10, bonus |-> 90000],
   V4 |-> [daily |-> 50000, duration |-> 15, bonus |-> 300000],
   V5 |-> [daily |-> 75000, duration |-> 30, bonus |-> 500000]]

ADMIN_KEY == "admin-secret"

\* ------------------------------------------------------------ input sets
NoUser == 0
NoDate == -1
NoTier == ""

\* register bodies <<email, username>>, in the order the accounts are opened
Credentials == <<(<<"a@x", "alice">>), (<<"b@x", "bob">>)>>
Keys == {ADMIN_KEY, "guess"}
\* request bodies the behaviours draw from; a rejected request changes nothing,
\* so further rejected bodies add no state: the properties quantify over them
DepositBodies == {<<"BTC", 1, NoTier>>, <<"BTC", 1, "V1">>, <<"USD", 1, NoTier>>}
PurchaseBodies == {<<"BTC", 1, "V1">>, <<"USDT", 2, "V2">>, <<"BTC", 1, "V9">>}
WithdrawBodies == {<<"BTC", 1>>, <<"BTC", 2>>}
TransferBodies == {<<"alice", 1, "BTC">>, <<"bob", 1, "BTC">>, <<"carol", 1, "BTC">>}
Hashes == {"0xabc"}

VARIABLES
  users,         \* User collection: _id = index
  transactions,  \* Transaction collection: _id = index
  memberships,   \* Membership collection: _id = index
  session,       \* req.session.userId of the browser session (NoUser: none)
  now,           \* the server clock, in instants
  runs,          \* scheduler requests in flight: the documents each has loaded
                 \* and not yet handled, and its results so far
  approvals,     \* approve-withdraw requests in flight: the transaction each
                 \* has loaded, the balance it has read and the await it is at
  env,           \* process.env.ADMIN_KEY of the running server
  credits,       \* approve-deposit requests in flight: the transaction each
                 \* has loaded, the balance it has read and the await it is at
  transfers,     \* internal-transfer requests in flight: the balances each
                 \* has read and the await it is at
  page           \* the price-chart page script: its globals, the intervals
                 \* setInterval has started and not cleared, and the
                 \* loadChartData calls whose chart fetch is pending

server == <<users, transactions, memberships, session, now, runs, approvals, env,
           credits, transfers>>

vars == <<users, transactions, memberships, session, now, runs, approvals, env,
         credits, transfers, page>>

\* ---------------------------------------------------------------- helpers
ZeroBalances == [c \in COINS |-> 0]

EmptyMeta == [k \in {} |-> TRUE]

Hash(password) == <<"bcrypt", password>>

Compare(password, hash) == hash = Hash(password)

\* Date.prototype.toDateString: the calendar day of an instant
toDateString(t) == t \div TicksPerDay

UserIds == 1 .. Len(users)

\* User.findOne(query): the first document among the ones the query matches
FindUser(matching) ==
  IF matching = {} THEN NoUser
  ELSE CHOOSE i \in matching : \A j \in matching : i <= j

Reply(op, txId, status, message) ==
  [op |-> op, txId |-> txId, status |-> status, message |-> message, results |-> <<>>]

needAuth == session # NoUser

\* what JavaScript yields for a header, a query parameter or an environment
\* variable that is not there
Undefined == "<undefined>"

\* a || b: b when a is undefined or the empty string
OrElse(a, b) == IF a \in {Undefined, ""} THEN b ELSE a

\* req.headers["x-admin-key"] || req.query.key || req.query.admin_key
SuppliedKey(header, key, admin_key) == OrElse(OrElse(header, key), admin_key)

\* mutant: a logged-in session passes the gate as well
requireAdmin_Session(key) == key = env \/ session # NoUser

\* the negation of  if (key !== process.env.ADMIN_KEY)
requireAdmin(key) == key = env

\* the stored documents a handler reads and writes
Db == [users |-> users, transactions |-> transactions, memberships |-> memberships]

\* a handler's outcome: the documents after it, the session after it and the
\* answer sent to the caller
Out(db, sess, resp) == [db |-> db, session |-> sess, response |-> resp]

Serve(out) ==
  /\ users' = out.db.users
  /\ transactions' = out.db.transactions
  /\ memberships' = out.db.memberships
  /\ session' = out.session
  /\ UNCHANGED <<now, runs, approvals, env, credits, transfers, page>>

\* Transaction.create({...}): createdAt defaults to the instant of creation
NewTx(userId, type, coin, amount, status, meta) ==
  [userId |-> userId, type |-> type, coin |-> coin, amount |-> amount,
   status |-> status, meta |-> meta, createdAt |-> now]

\* mutant: the credit overwrites the balance instead of adding to it
Credit_Overwrite(balance, amount) == amount

\* mutant: the credit is computed and not applied
Credit_Dropped(balance, amount) == balance

\* user.balances[coin] = (user.balances[coin] || 0) + amount
Credit(balance, amount) == balance + amount

\* mutant: the balance is saved without the deduction
Debit_None(current, amount) == current

\* mutant: the amount is added where it is to be taken off
Debit_Add(current, amount) == current + amount

\* user.balances[coin] = current - amount
Debit(current, amount) == current - amount

\* mutant: the test lets an amount of one above the balance through
Exceeds_OffByOne(amount, current) == amount > current + 1

\* mutant: the balance is not looked at again at approval time
Exceeds_Never(amount, current) == FALSE

\* approve-withdraw: if (tx.amount > current)
Exceeds(amount, current) == amount > current

\* mutant: the transfer does not check the sender's balance
CanSend_Always(senderBalance, amount) == TRUE

\* internal-transfer: the negation of if (senderBalance < amount)
CanSend(senderBalance, amount) == ~(senderBalance < amount)

\* ------------------------------------------------------- session endpoints
\* mutant: $and for $or
Taken_Both(email, username) ==
  {i \in UserIds : users[i].email = email /\ users[i].username = username}

\* the documents matched by { $or: [{ email }, { username }] }
Taken(email, username) ==
  {i \in UserIds : users[i].email = email \/ users[i].username = username}

\* POST /api/register
RegisterOut(email, username, password) ==
  IF email = "" \/ username = "" \/ password = ""
    THEN Out(Db, session, Reply("register", 0, 400, "All fields required"))
  ELSE IF FindUser(Taken(email, username)) # NoUser
    THEN Out(Db, session, Reply("register", 0, 400, "User exists"))
  ELSE
    LET user == [email |-> email, username |-> username, password |-> Hash(password),
                 balances |-> ZeroBalances, membership |-> NoTier]
    IN Out([Db EXCEPT !.users = Append(users, user)], Len(users) + 1,
           Reply("register", 0, 200, "ok"))

Register(email, username, password) == Serve(RegisterOut(email, username, password))

\* mutant: the password is not compared
LoginOut_AnyPassword(lookup, password) ==
  LET id == FindUser({i \in UserIds : users[i].email = lookup \/ users[i].username = lookup}) IN
  IF id = NoUser
    THEN Out(Db, session, Reply("login", 0, 401, "Invalid login"))
    ELSE Out(Db, id, Reply("login", 0, 200, "ok"))

\* POST /api/login
LoginOut(lookup, password) ==
  LET id == FindUser({i \in UserIds : users[i].email = lookup \/ users[i].username = lookup}) IN
  IF lookup = "" \/ password = ""
    THEN Out(Db, session, Reply("login", 0, 400, "Credentials missing"))
  ELSE IF id = NoUser
    THEN Out(Db, session, Reply("login", 0, 401, "Invalid login"))
  ELSE IF ~Compare(password, users[id].password)
    THEN Out(Db, session, Reply("login", 0, 401, "Invalid login"))
  ELSE Out(Db, id, Reply("login", 0, 200, "ok"))

Login(lookup, password) == Serve(LoginOut(lookup, password))

\* Number(user.balance || 0) || 0: the amount of a document written before
\* the per-coin balances existed
Legacy(u) == IF "balance" \in DOMAIN u THEN u.balance ELSE 0

\* mutant: the balances are rebuilt from the legacy amount on every call
Migrated_Always(u) ==
  [balances |-> [ZeroBalances EXCEPT !["USDT"] = Legacy(u)]] @@
    [f \in DOMAIN u \ {"balances"} |-> u[f]]

\* if (!user.balances) { user.balances = { ..., USDT: legacy, ... }; user.save() }
\* (the save is issued before the answer is sent)
Migrated(u) ==
  IF "balances" \in DOMAIN u THEN u
  ELSE [balances |-> [ZeroBalances EXCEPT !["USDT"] = Legacy(u)]] @@ u

\* GET /api/profile
ProfileOut ==
  IF ~needAuth
    THEN Out(Db, session, Reply("profile", 0, 401, "Please login"))
  ELSE IF session \notin UserIds
    THEN Out(Db, session, Reply("profile", 0, 404, "User not found"))
  ELSE Out([Db EXCEPT !.users[session] = Migrated(@)], session,
           [Reply("profile", 0, 200, "ok") EXCEPT
              !.results = SelectSeq(transactions, LAMBDA t : t.userId = session)])

Profile == Serve(ProfileOut)

\* GET /api/balances
BalancesOut ==
  IF ~needAuth
    THEN Out(Db, session, Reply("balances", 0, 401, "Please login"))
  ELSE IF session \notin UserIds
    THEN Out(Db, session, Reply("balances", 0, 404, "User not found"))
  ELSE Out([Db EXCEPT !.users[session] = Migrated(@)], session,
           Reply("balances", 0, 200, "ok"))

Balances == Serve(BalancesOut)

\* POST /api/logout
LogoutOut == Out(Db, NoUser, Reply("logout", 0, 200, "ok"))

Logout == Serve(LogoutOut)

\* POST /api/deposit
DepositMeta(membershipTier) ==
  IF membershipTier # NoTier
    THEN [isMembership |-> TRUE, membershipTier |-> membershipTier]
    ELSE EmptyMeta

DepositOut(coin, amount, membershipTier) ==
  IF ~needAuth
    THEN Out(Db, session, Reply("deposit", 0, 401, "Please login"))
  ELSE IF coin = "" \/ amount = 0 \/ amount <= 0
    THEN Out(Db, session, Reply("deposit", 0, 400, "Invalid deposit"))
  ELSE IF coin \notin ALLOWED
    THEN Out(Db, session, Reply("deposit", 0, 400, "Unsupported coin"))
  ELSE
    LET tx == NewTx(session, "DEPOSIT", coin, amount, "PENDING", DepositMeta(membershipTier))
    IN Out([Db EXCEPT !.transactions = Append(transactions, tx)], session,
           Reply("deposit", Len(transactions) + 1, 200, "ok"))

Deposit(coin, amount, membershipTier) == Serve(DepositOut(coin, amount, membershipTier))

\* mutant: a withdrawal of the whole balance is refused as well
Insufficient_OrEqual(amount, currentBalance) == amount >= currentBalance

\* withdraw: if (amount > currentBalance)
Insufficient(amount, currentBalance) == amount > currentBalance

\* mutant: a payment that is looked up is confirmed on the spot
VerifyPaymentOut_AutoConfirm(txId) ==
  IF needAuth /\ txId \in 1 .. Len(transactions)
    THEN Out([Db EXCEPT !.transactions[txId].status = "CONFIRMED"], session,
             Reply("verify-payment", txId, 200, "CONFIRMED"))
    ELSE Out(Db, session, Reply("verify-payment", txId, 400, "txId required"))

\* POST /api/verify-payment
VerifyPaymentOut(txId) ==
  IF ~needAuth
    THEN Out(Db, session, Reply("verify-payment", txId, 401, "Please login"))
  ELSE IF txId = 0
    THEN Out(Db, session, Reply("verify-payment", txId, 400, "txId required"))
  ELSE IF txId \notin 1 .. Len(transactions)
    THEN Out(Db, session, Reply("verify-payment", txId, 200, "NOT_FOUND"))
  ELSE Out(Db, session,
           [Reply("verify-payment", txId, 200, transactions[txId].status) EXCEPT
              !.results = <<[coin |-> transactions[txId].coin,
                             amount |-> transactions[txId].amount,
                             meta |-> transactions[txId].meta]>>])

VerifyPayment(txId) == Serve(VerifyPaymentOut(txId))

\* POST /api/verify-payment of the ledger-aggregate server, on the same
\* records: a record of another user is answered like one that is not there
LedgerVerifyPaymentOut(txId, coin) ==
  IF ~needAuth
    THEN Out(Db, session, Reply("verify-payment", txId, 401, "Please login"))
  ELSE IF txId = 0 \/ coin = ""
    THEN Out(Db, session,
             Reply("verify-payment", txId, 400, "Transaction ID and coin required"))
  ELSE IF txId \notin 1 .. Len(transactions) \/ transactions[txId].userId # session
    THEN Out(Db, session, Reply("verify-payment", txId, 403, "Transaction not found"))
  ELSE Out(Db, session,
           [Reply("verify-payment", txId, 200, transactions[txId].status) EXCEPT
              !.results = <<[coin |-> transactions[txId].coin,
                             amount |-> transactions[txId].amount]>>])

\* GET /api/transactions: the records of the session user
TransactionsOut ==
  IF ~needAuth
    THEN Out(Db, session, Reply("transactions", 0, 401, "Please login"))
  ELSE Out(Db, session,
           [Reply("transactions", 0, 200, "ok") EXCEPT
              !.results = SelectSeq(transactions, LAMBDA t : t.userId = session)])

Transactions == Serve(TransactionsOut)

\* POST /api/withdraw
WithdrawOut(coin, amount) ==
  IF ~needAuth
    THEN Out(Db, session, Reply("withdraw", 0, 401, "Please login"))
  ELSE IF coin = "" \/ amount = 0 \/ amount <= 0
    THEN Out(Db, session, Reply("withdraw", 0, 400, "Invalid withdrawal"))
  ELSE IF coin \notin ALLOWED
    THEN Out(Db, session, Reply("withdraw", 0, 400, "Unsupported coin"))
  ELSE IF session \notin UserIds
    THEN Out(Db, session, Reply("withdraw", 0, 404, "User not found"))
  ELSE IF Insufficient(amount, users[session].balances[coin])
    THEN Out(Db, session, Reply("withdraw", 0, 400, "Insufficient balance"))
  ELSE
    LET tx == NewTx(session, "WITHDRAW", coin, amount, "PENDING", EmptyMeta)
    IN Out([Db EXCEPT !.transactions = Append(transactions, tx)], session,
           Reply("withdraw", Len(transactions) + 1, 200, "ok"))

Withdraw(coin, amount) == Serve(WithdrawOut(coin, amount))

\* POST /api/internal-transfer
InternalTransferOut(recipient, amount, coin) ==
  IF ~needAuth
    THEN Out(Db, session, Reply("internal-transfer", 0, 401, "Please login"))
  ELSE IF recipient = "" \/ amount = 0 \/ amount <= 0
    THEN Out(Db, session, Reply("internal-transfer", 0, 400, "Invalid transfer"))
  ELSE IF coin \notin ALLOWED
    THEN Out(Db, session, Reply("internal-transfer", 0, 400, "Unsupported coin"))
  ELSE IF session \notin UserIds
    THEN Out(Db, session, Reply("internal-transfer", 0, 404, "Sender not found"))
  ELSE
    LET sender == users[session]
        senderBalance == sender.balances[coin]
        receiverId == FindUser({i \in UserIds : users[i].username = recipient})
    IN
    IF ~CanSend(senderBalance, amount)
      THEN Out(Db, session, Reply("internal-transfer", 0, 400, "Insufficient balance"))
    ELSE IF receiverId = NoUser
      THEN Out(Db, session, Reply("internal-transfer", 0, 404, "Recipient not found"))
    ELSE
      LET receiver == users[receiverId]
          \* both documents were read before either is saved
          senderDoc == [sender EXCEPT !.balances[coin] = Debit(senderBalance, amount)]
          receiverDoc == [receiver EXCEPT !.balances[coin] = Credit(receiver.balances[coin], amount)]
          saved1 == [users EXCEPT ![session] = senderDoc]
          saved2 == [saved1 EXCEPT ![receiverId] = receiverDoc]
          sent == NewTx(session, "TRANSFER", coin, amount, "CONFIRMED",
                        [direction |-> "SENT", to |-> receiver.username])
          received == NewTx(receiverId, "TRANSFER", coin, amount, "CONFIRMED",
                            [direction |-> "RECEIVED", from |-> sender.username])
      IN Out([Db EXCEPT !.users = saved2,
                        !.transactions = Append(Append(transactions, sent), received)],
             session, Reply("internal-transfer", 0, 200, "Transfer successful"))

InternalTransfer(recipient, amount, coin) == Serve(InternalTransferOut(recipient, amount, coin))

\* --------------------------------------------------------- admin endpoints
TxIds == 1 .. Len(transactions)

\* mutant: the approval does not look at the type
WrongType_Never(tx, type) == FALSE

\* if (tx.type !== "DEPOSIT") / if (tx.type !== "WITHDRAW")
WrongType(tx, type) == tx.type # type

\* mutant: the approval does not look at the status
AlreadyConfirmed_Never(tx) == FALSE

\* mutant: the early return tests for the wrong status
AlreadyConfirmed_Declined(tx) == tx.status = "DECLINED"

\* if (tx.status === "CONFIRMED") return res.json({ ok: true, message: "Already confirmed" })
AlreadyConfirmed(tx) == tx.status = "CONFIRMED"

\* tx.meta && tx.meta.isMembership && tx.meta.membershipTier
IsMembershipPurchase(meta) ==
  /\ "isMembership" \in DOMAIN meta
  /\ meta.isMembership
  /\ "membershipTier" \in DOMAIN meta
  /\ meta.membershipTier # NoTier

KnownTier(tier) == tier \in DOMAIN TIERS

\* mutant: the bonus and the daily amount of the tier are swapped
NewMembership_Swapped(userId, tier) ==
  [userId |-> userId, tier |-> tier, status |-> "ACTIVE",
   durationDays |-> TIERS[tier].duration, daysPaid |-> 0,
   dailyAmount |-> TIERS[tier].bonus, bonusAtMonthEnd |-> TIERS[tier].daily,
   bonusPaid |-> FALSE, lastPayout |-> NoDate]

\* Membership.create({...}) of approve-deposit
NewMembership(userId, tier) ==
  [userId |-> userId, tier |-> tier, status |-> "ACTIVE",
   durationDays |-> TIERS[tier].duration, daysPaid |-> 0,
   dailyAmount |-> TIERS[tier].daily, bonusAtMonthEnd |-> TIERS[tier].bonus,
   bonusPaid |-> FALSE, lastPayout |-> NoDate]

\* POST /api/admin/approve-deposit
ApproveDepositOut(key, txId) ==
  IF ~requireAdmin(key)
    THEN Out(Db, session, Reply("approve-deposit", txId, 401, "Unauthorized admin"))
  ELSE IF txId = 0
    THEN Out(Db, session, Reply("approve-deposit", txId, 400, "txId required"))
  ELSE IF txId \notin TxIds
    THEN Out(Db, session, Reply("approve-deposit", txId, 404, "Transaction not found"))
  ELSE
    LET tx == transactions[txId] IN
    IF WrongType(tx, "DEPOSIT")
      THEN Out(Db, session, Reply("approve-deposit", txId, 400, "Not a deposit"))
    ELSE IF AlreadyConfirmed(tx)
      THEN Out(Db, session, Reply("approve-deposit", txId, 200, "Already confirmed"))
    ELSE
      LET confirmed == [transactions EXCEPT ![txId].status = "CONFIRMED"]
          credited == [users EXCEPT ![tx.userId].balances[tx.coin] = Credit(@, tx.amount)]
      IN
      IF tx.userId \notin UserIds
        THEN Out([Db EXCEPT !.transactions = confirmed], session,
                 Reply("approve-deposit", txId, 404, "User not found for tx"))
      ELSE IF IsMembershipPurchase(tx.meta)
        THEN IF ~KnownTier(tx.meta.membershipTier)
          THEN Out([Db EXCEPT !.transactions = confirmed, !.users = credited], session,
                   Reply("approve-deposit", txId, 200,
                         "Confirmed (unknown tier, credited as deposit)"))
          ELSE Out([Db EXCEPT !.transactions = confirmed,
                              !.memberships = Append(memberships,
                                 NewMembership(tx.userId, tx.meta.membershipTier)),
                              !.users[tx.userId].membership = tx.meta.membershipTier],
                   session, Reply("approve-deposit", txId, 200, "membershipActivated"))
      ELSE Out([Db EXCEPT !.transactions = confirmed, !.users = credited], session,
               Reply("approve-deposit", txId, 200, "ok"))

ApproveDeposit(key, txId) == Serve(ApproveDepositOut(key, txId))

\* POST /api/admin/approve-withdraw
ApproveWithdrawOut(key, txId, tx_hash) ==
  IF ~requireAdmin(key)
    THEN Out(Db, session, Reply("approve-withdraw", txId, 401, "Unauthorized admin"))
  ELSE IF txId = 0
    THEN Out(Db, session, Reply("approve-withdraw", txId, 400, "txId required"))
  ELSE IF txId \notin TxIds
    THEN Out(Db, session, Reply("approve-withdraw", txId, 404, "Transaction not found"))
  ELSE
    LET tx == transactions[txId] IN
    IF WrongType(tx, "WITHDRAW")
      THEN Out(Db, session, Reply("approve-withdraw", txId, 400, "Not a withdraw"))
    ELSE IF AlreadyConfirmed(tx)
      THEN Out(Db, session, Reply("approve-withdraw", txId, 200, "Already confirmed"))
    ELSE IF tx.userId \notin UserIds
      THEN Out(Db, session, Reply("approve-withdraw", txId, 404, "User not found"))
    ELSE
      LET current == users[tx.userId].balances[tx.coin] IN
      IF Exceeds(tx.amount, current)
        THEN Out([Db EXCEPT !.transactions[txId].status = "DECLINED"], session,
                 Reply("approve-withdraw", txId, 400,
                       "Insufficient user balance to approve withdraw"))
        ELSE Out([Db EXCEPT !.transactions[txId].status = "CONFIRMED",
                            !.transactions[txId].meta = [tx_hash |-> tx_hash] @@ tx.meta,
                            !.users[tx.userId].balances[tx.coin] = Debit(current, tx.amount)],
                 session, Reply("approve-withdraw", txId, 200, "ok"))

ApproveWithdraw(key, txId, tx_hash) == Serve(ApproveWithdrawOut(key, txId, tx_hash))

\* mutant: only a PENDING transaction is declined
Declined_PendingOnly(tx) ==
  IF tx.status = "PENDING" THEN [tx EXCEPT !.status = "DECLINED"] ELSE tx

\* tx.status = "DECLINED"; await tx.save();
Declined(tx) == [tx EXCEPT !.status = "DECLINED"]

\* GET /api/admin/pending-deposits (the other listings differ in the query only)
PendingDepositsOut(key) ==
  IF ~requireAdmin(key)
    THEN Out(Db, session, Reply("pending-deposits", 0, 401, "Unauthorized admin"))
  ELSE LET pending == SelectSeq(transactions,
                         LAMBDA t : t.type = "DEPOSIT" /\ t.status = "PENDING")
       IN Out(Db, session,
              [Reply("pending-deposits", 0, 200, "ok") EXCEPT !.results = pending])

PendingDeposits(key) == Serve(PendingDepositsOut(key))

\* POST /api/admin/decline-transaction
DeclineTransactionOut(key, txId) ==
  IF ~requireAdmin(key)
    THEN Out(Db, session, Reply("decline-transaction", txId, 401, "Unauthorized admin"))
  ELSE IF txId = 0
    THEN Out(Db, session, Reply("decline-transaction", txId, 400, "txId required"))
  ELSE IF txId \notin TxIds
    THEN Out(Db, session, Reply("decline-transaction", txId, 404, "Transaction not found"))
  ELSE Out([Db EXCEPT !.transactions[txId] = Declined(transactions[txId])], session,
           Reply("decline-transaction", txId, 200, "Transaction declined"))

DeclineTransaction(key, txId) == Serve(DeclineTransactionOut(key, txId))

\* ------------------------------------------------------- payout scheduler
\* mutant: the dates are not compared, a membership paid once counts as paid
PaidToday_EverPaid(lastPayout, t) == lastPayout # NoDate

\* m.lastPayout && new Date(m.lastPayout).toDateString() === new Date().toDateString()
PaidToday(lastPayout, t) ==
  lastPayout # NoDate /\ toDateString(lastPayout) = toDateString(t)

\* mutant: > for >=
Reached_Strict(daysPaid, durationDays) == daysPaid > durationDays

\* mutant: the completion test is dropped
Reached_Never(daysPaid, durationDays) == FALSE

\* if (m.daysPaid >= m.durationDays)
Reached(daysPaid, durationDays) == daysPaid >= durationDays

\* Membership.find({ status: "ACTIVE" }): the ids, in collection order
RECURSIVE FindActive(_, _)
FindActive(ms, i) ==
  IF i > Len(ms) THEN <<>>
  ELSE IF ms[i].status = "ACTIVE" THEN <<i>> \o FindActive(ms, i + 1)
  ELSE FindActive(ms, i + 1)

Result(id, skipped, txId, bonusTx, daysPaid) ==
  [membership |-> id, skipped |-> skipped, txId |-> txId, bonusTx |-> bonusTx,
   daysPaid |-> daysPaid]

\* mutant: the credited user document is not saved
CreditUSD_Unsaved(us, userId, amount) == us

\* const u = await User.findById(m.userId); if (u) { ...; u.balances.USD += amount; await u.save(); }
CreditUSD(us, userId, amount) ==
  IF userId \in 1 .. Len(us)
    THEN [us EXCEPT ![userId].balances["USD"] = Credit(@, amount)]
    ELSE us

\* mutant: the pass counts the day and never marks the membership COMPLETED
PayoutOne_StaysActive(id, m, db, results, t) ==
  IF PaidToday(m.lastPayout, t)
    THEN [db |-> db, results |-> Append(results, Result(id, "already paid today", 0, 0, 0))]
  ELSE IF Reached(m.daysPaid, m.durationDays)
    THEN [db |-> db, results |-> results]
  ELSE
    LET txDaily == NewTx(m.userId, "MEMBERSHIP_PAYOUT", "USD", m.dailyAmount, "CONFIRMED",
                         [membershipId |-> id])
        paid == m.daysPaid + 1
    IN [db |-> [db EXCEPT !.transactions = Append(@, txDaily),
                          !.users = CreditUSD(@, m.userId, m.dailyAmount),
                          !.memberships[id] = [@ EXCEPT !.daysPaid = paid, !.lastPayout = t]],
        results |-> Append(results, Result(id, "", Len(db.transactions) + 1, 0, paid))]

\* one pass of the body of  for (const m of memberships)  on the loaded
\* document m; m.save() writes the fields the pass has assigned
PayoutOne(id, m, db, results, t) ==
  IF PaidToday(m.lastPayout, t)
    THEN [db |-> db, results |-> Append(results, Result(id, "already paid today", 0, 0, 0))]
  ELSE IF Reached(m.daysPaid, m.durationDays)
    THEN IF ~m.bonusPaid
      THEN IF m.bonusAtMonthEnd > 0
        THEN LET txBonus == NewTx(m.userId, "PAYOUT", "USD", m.bonusAtMonthEnd, "CONFIRMED",
                                  [reason |-> "membership_bonus", membershipId |-> id])
             IN [db |-> [db EXCEPT !.transactions = Append(@, txBonus),
                                   !.users = CreditUSD(@, m.userId, m.bonusAtMonthEnd),
                                   !.memberships[id] = [@ EXCEPT !.bonusPaid = TRUE]],
                 results |-> Append(results,
                                Result(id, "", 0, Len(db.transactions) + 1, 0))]
        ELSE [db |-> db, results |-> results]
      ELSE [db |-> db,
            results |-> Append(results, Result(id, "completed & bonus paid", 0, 0, 0))]
  ELSE IF m.dailyAmount <= 0
    THEN [db |-> db,
          results |-> Append(results, Result(id, "no daily amount configured", 0, 0, 0))]
  ELSE
    LET txDaily == NewTx(m.userId, "MEMBERSHIP_PAYOUT", "USD", m.dailyAmount, "CONFIRMED",
                         [membershipId |-> id])
        paid == m.daysPaid + 1
        saved == [db.memberships[id] EXCEPT
                    !.daysPaid = paid, !.lastPayout = t,
                    !.status = IF Reached(paid, m.durationDays) THEN "COMPLETED" ELSE @]
    IN [db |-> [db EXCEPT !.transactions = Append(@, txDaily),
                          !.users = CreditUSD(@, m.userId, m.dailyAmount),
                          !.memberships[id] = saved],
        results |-> Append(results, Result(id, "", Len(db.transactions) + 1, 0, paid))]

RECURSIVE PayoutLoop(_, _, _, _)
PayoutLoop(ids, db, results, t) ==
  IF ids = <<>> THEN [db |-> db, results |-> results]
  ELSE LET one == PayoutOne(Head(ids), memberships[Head(ids)], db, results, t)
       IN PayoutLoop(Tail(ids), one.db, one.results, t)

\* POST /api/cron/payouts
CronPayoutsOut(key) ==
  IF ~requireAdmin(key)
    THEN Out(Db, session, Reply("cron-payouts", 0, 401, "Unauthorized admin"))
  ELSE LET run == PayoutLoop(FindActive(memberships, 1), Db, <<>>, now)
       IN Out(run.db, session,
              [Reply("cron-payouts", 0, 200, "ok") EXCEPT !.results = run.results])

CronPayouts(key) == Serve(CronPayoutsOut(key))

\* The same handler when a storage operation of the loop throws: the awaits
\* of the daily payout that write or read the store
StorageOps == {"Transaction.create", "user.save", "m.save"}

\* the pass on document m reaches the daily payout, where the store is used
UsesStore(m, t) ==
  /\ ~PaidToday(m.lastPayout, t)
  /\ ~Reached(m.daysPaid, m.durationDays)
  /\ m.dailyAmount > 0

\* the store when operation op of the pass on m throws: what the awaits
\* before it have written stays written
PayoutOneFail(id, m, db, t, op) ==
  LET txDaily == NewTx(m.userId, "MEMBERSHIP_PAYOUT", "USD", m.dailyAmount, "CONFIRMED",
                       [membershipId |-> id])
      created == [db EXCEPT !.transactions = Append(@, txDaily)]
  IN IF op = "Transaction.create" THEN db
     ELSE IF op = "user.save" THEN created
     ELSE [created EXCEPT !.users = CreditUSD(@, m.userId, m.dailyAmount)]

\* POST /api/cron/payouts in which operation op throws during the pass on the
\* k-th loaded membership: the throw leaves the loop for the handler's catch
CronPayoutsFailOut(key, k, op) ==
  LET ids == FindActive(memberships, 1) IN
  IF ~requireAdmin(key)
    THEN Out(Db, session, Reply("cron-payouts", 0, 401, "Unauthorized admin"))
  ELSE IF k \notin 1 .. Len(ids)
    THEN CronPayoutsOut(key)
  ELSE LET first == PayoutLoop(SubSeq(ids, 1, k - 1), Db, <<>>, now)
       IN IF ~UsesStore(memberships[ids[k]], now)
            THEN CronPayoutsOut(key)
            ELSE Out(PayoutOneFail(ids[k], memberships[ids[k]], first.db, now, op), session,
                     Reply("cron-payouts", 0, 500, "storage error"))

CronPayoutsFail(key, k, op) == Serve(CronPayoutsFailOut(key, k, op))

\* The same handler with the requests of several callers in flight: every
\* await of the loop lets another request run.  A run holds the documents
\* that Membership.find returned when it started.
Loaded ==
  LET ids == FindActive(memberships, 1)
  IN [i \in 1 .. Len(ids) |-> [id |-> ids[i], m |-> memberships[ids[i]]]]

\* the request passes the gate and loads the ACTIVE memberships; with none
\* loaded it answers at once
CronStart(key) ==
  /\ requireAdmin(key)
  /\ Len(runs) < MaxRuns
  /\ runs' = IF Loaded = <<>> THEN runs
             ELSE Append(runs, [todo |-> Loaded, results |-> <<>>, usd |-> 0, txId |-> 0,
                                at |-> "loop"])
  /\ UNCHANGED <<users, transactions, memberships, session, now, approvals, env, credits, transfers, page>>

\* mutant: each pass reads the membership again before the date check
Doc_Reread(h) == memberships[h.id]

\* the document a pass of the loop works on: the one Membership.find returned
\* when the run started
Doc(h) == h.m

\* one pass of the loop of run r, on the document the run has loaded; after
\* the last pass the run answers (res.json follows the loop with no await)
CronIterate(r) ==
  /\ r \in 1 .. Len(runs)
  /\ runs[r].at = "loop"
  /\ LET h == Head(runs[r].todo)
         one == PayoutOne(h.id, Doc(h), Db, runs[r].results, now)
     IN /\ users' = one.db.users
        /\ transactions' = one.db.transactions
        /\ memberships' = one.db.memberships
        /\ runs' = IF Tail(runs[r].todo) # <<>>
                     THEN [runs EXCEPT ![r].todo = Tail(@), ![r].results = one.results]
                     ELSE [i \in 1 .. Len(runs) - 1 |-> IF i < r THEN runs[i] ELSE runs[i + 1]]
  /\ UNCHANGED <<session, now, approvals, env, credits, transfers, page>>

\* the pass on document m reaches the daily payout: it is not skipped as paid
\* today, not taken as completed, and has a daily amount
Pays(m, t) ==
  /\ ~PaidToday(m.lastPayout, t)
  /\ ~Reached(m.daysPaid, m.durationDays)
  /\ m.dailyAmount > 0

\* user.balances.USD of the document that User.findById returned to the pass
Read(us, userId, run) == run.usd

\* a pass with other requests in flight, up to the user document it loads:
\* a pass that pays creates the MEMBERSHIP_PAYOUT record and reads the user;
\* any other pass touches no balance and is over at once
CronPassLoad(r) ==
  /\ r \in 1 .. Len(runs)
  /\ runs[r].at = "loop"
  /\ LET h == Head(runs[r].todo)
         m == Doc(h)
         txDaily == NewTx(m.userId, "MEMBERSHIP_PAYOUT", "USD", m.dailyAmount, "CONFIRMED",
                          [membershipId |-> h.id])
     IN \/ ~Pays(m, now) /\ CronIterate(r)
        \/ /\ Pays(m, now)
           /\ transactions' = Append(transactions, txDaily)
           /\ runs' = [runs EXCEPT ![r].usd = users[m.userId].balances["USD"],
                                   ![r].txId = Len(transactions) + 1,
                                   ![r].at = "user.save"]
           /\ UNCHANGED <<users, memberships, session, now, approvals, env, credits,
                          transfers, page>>

\* the saves of a pass that pays: user.save() writes the balance the pass
\* read plus the daily amount, m.save() the counter, the date and the status
CronPassSave(r) ==
  /\ r \in 1 .. Len(runs)
  /\ runs[r].at = "user.save"
  /\ LET h == Head(runs[r].todo)
         m == Doc(h)
         paid == m.daysPaid + 1
         results == Append(runs[r].results, Result(h.id, "", runs[r].txId, 0, paid))
     IN /\ users' = [users EXCEPT ![m.userId].balances["USD"] =
                                    Credit(Read(users, m.userId, runs[r]), m.dailyAmount)]
        /\ memberships' = [memberships EXCEPT ![h.id] =
                             [@ EXCEPT !.daysPaid = paid, !.lastPayout = now,
                                       !.status = IF Reached(paid, m.durationDays)
                                                    THEN "COMPLETED" ELSE @]]
        /\ runs' = IF Tail(runs[r].todo) # <<>>
                     THEN [runs EXCEPT ![r].todo = Tail(@), ![r].results = results,
                                       ![r].at = "loop"]
                     ELSE [i \in 1 .. Len(runs) - 1 |-> IF i < r THEN runs[i] ELSE runs[i + 1]]
  /\ UNCHANGED <<transactions, session, now, approvals, env, credits, transfers, page>>

\* The same handler with the requests of several callers in flight.  Each
\* await is a point where another request runs: Transaction.findById,
\* User.findById, tx.save and user.save reach the store one at a time.
Without(seq, r) == [i \in 1 .. Len(seq) - 1 |-> IF i < r THEN seq[i] ELSE seq[i + 1]]

\* mutant: the balance is read again when the request decides
Current_Reread(db, a) == db.users[a.tx.userId].balances[a.tx.coin]

\* const current = Number(user.balances[tx.coin] || 0), of the document that
\* User.findById returned to this request
Current(db, a) == a.current

\* await tx.save() of request a: DECLINED when the amount exceeds the balance
\* the request holds, else CONFIRMED with the hash
SaveTx(db, a) ==
  IF Exceeds(a.tx.amount, Current(db, a))
    THEN [db EXCEPT !.transactions[a.txId].status = "DECLINED"]
    ELSE [db EXCEPT !.transactions[a.txId].status = "CONFIRMED",
                    !.transactions[a.txId].meta = [tx_hash |-> a.tx_hash] @@ a.tx.meta]

\* user.balances[tx.coin] = current - tx.amount; await user.save()
SaveUser(db, a) ==
  [db EXCEPT !.users[a.tx.userId].balances[a.tx.coin] = Debit(Current(db, a), a.tx.amount)]

\* the request passes the gate and the tests on the transaction it loads
ApproveWithdrawLoadTx(key, txId, tx_hash) ==
  /\ requireAdmin(key)
  /\ txId \in TxIds
  /\ ~WrongType(transactions[txId], "WITHDRAW")
  /\ ~AlreadyConfirmed(transactions[txId])
  /\ transactions[txId].userId \in UserIds
  /\ Len(approvals) < MaxApprovals
  /\ approvals' = Append(approvals, [txId |-> txId, tx_hash |-> tx_hash,
                                     tx |-> transactions[txId], current |-> 0,
                                     at |-> "User.findById"])
  /\ UNCHANGED <<users, transactions, memberships, session, now, runs, env, credits, transfers, page>>

\* User.findById answers request r: it holds the balance of this instant
ApproveWithdrawLoadUser(r) ==
  /\ r \in 1 .. Len(approvals)
  /\ approvals[r].at = "User.findById"
  /\ approvals' = [approvals EXCEPT
                     ![r].current = users[approvals[r].tx.userId].balances[approvals[r].tx.coin],
                     ![r].at = "tx.save"]
  /\ UNCHANGED <<users, transactions, memberships, session, now, runs, env, credits, transfers, page>>

\* tx.save() of request r reaches the store; a declined request answers
ApproveWithdrawSaveTx(r) ==
  /\ r \in 1 .. Len(approvals)
  /\ approvals[r].at = "tx.save"
  /\ transactions' = SaveTx(Db, approvals[r]).transactions
  /\ approvals' = IF Exceeds(approvals[r].tx.amount, Current(Db, approvals[r]))
                    THEN Without(approvals, r)
                    ELSE [approvals EXCEPT ![r].at = "user.save"]
  /\ UNCHANGED <<users, memberships, session, now, runs, env, credits, transfers, page>>

\* user.save() of request r reaches the store and the request answers
ApproveWithdrawSaveUser(r) ==
  /\ r \in 1 .. Len(approvals)
  /\ approvals[r].at = "user.save"
  /\ users' = SaveUser(Db, approvals[r]).users
  /\ approvals' = Without(approvals, r)
  /\ UNCHANGED <<transactions, memberships, session, now, runs, env, credits, transfers, page>>

\* approve-deposit with other requests in flight: Transaction.findById,
\* tx.save, User.findById and user.save reach the store one at a time
ApproveDepositLoadTx(key, txId) ==
  /\ requireAdmin(key)
  /\ txId \in TxIds
  /\ ~WrongType(transactions[txId], "DEPOSIT")
  /\ ~AlreadyConfirmed(transactions[txId])
  /\ credits' = Append(credits, [txId |-> txId, tx |-> transactions[txId],
                                 current |-> 0, at |-> "tx.save"])
  /\ UNCHANGED <<users, transactions, memberships, session, now, runs, approvals, env,
                 transfers, page>>

\* tx.status = "CONFIRMED"; await tx.save()
ApproveDepositSaveTx(r) ==
  /\ r \in 1 .. Len(credits)
  /\ credits[r].at = "tx.save"
  /\ transactions' = [transactions EXCEPT ![credits[r].txId].status = "CONFIRMED"]
  /\ credits' = [credits EXCEPT ![r].at = "User.findById"]
  /\ UNCHANGED <<users, memberships, session, now, runs, approvals, env, transfers, page>>

\* User.findById answers request r: it holds the balance of this instant
ApproveDepositLoadUser(r) ==
  /\ r \in 1 .. Len(credits)
  /\ credits[r].at = "User.findById"
  /\ credits' =
       IF credits[r].tx.userId \notin UserIds THEN Without(credits, r)
       ELSE [credits EXCEPT
               ![r].current = users[credits[r].tx.userId].balances[credits[r].tx.coin],
               ![r].at = "user.save"]
  /\ UNCHANGED <<users, transactions, memberships, session, now, runs, approvals, env,
                 transfers, page>>

\* the last saves of request r: the membership and the user's tier for a
\* purchase of a known tier, the credited balance otherwise
ApproveDepositSaveUser(r) ==
  /\ r \in 1 .. Len(credits)
  /\ credits[r].at = "user.save"
  /\ LET tx == credits[r].tx IN
     IF IsMembershipPurchase(tx.meta) /\ KnownTier(tx.meta.membershipTier)
       THEN /\ memberships' = Append(memberships, NewMembership(tx.userId, tx.meta.membershipTier))
            /\ users' = [users EXCEPT ![tx.userId].membership = tx.meta.membershipTier]
       ELSE /\ users' = [users EXCEPT ![tx.userId].balances[tx.coin] =
                                          Credit(credits[r].current, tx.amount)]
            /\ UNCHANGED memberships
  /\ credits' = Without(credits, r)
  /\ UNCHANGED <<transactions, session, now, runs, approvals, env, transfers, page>>

\* internal-transfer with other requests in flight: the sender is loaded
\* and tested, the recipient is loaded, the sender is saved, the recipient is
\* saved and the two records are written
TransferLoadSender(recipient, amount, coin) ==
  /\ needAuth
  /\ recipient # "" /\ amount > 0
  /\ coin \in ALLOWED
  /\ session \in UserIds
  /\ CanSend(users[session].balances[coin], amount)
  /\ transfers' = Append(transfers,
                    [sender |-> session, recipient |-> recipient, amount |-> amount,
                     coin |-> coin, senderBalance |-> users[session].balances[coin],
                     receiver |-> NoUser, receiverBalance |-> 0, at |-> "User.findOne"])
  /\ UNCHANGED <<users, transactions, memberships, session, now, runs, approvals, env,
                 credits, page>>

TransferLoadReceiver(r) ==
  /\ r \in 1 .. Len(transfers)
  /\ transfers[r].at = "User.findOne"
  /\ LET id == FindUser({i \in UserIds : users[i].username = transfers[r].recipient})
     IN transfers' =
          IF id = NoUser THEN Without(transfers, r)
          ELSE [transfers EXCEPT ![r].receiver = id,
                                 ![r].receiverBalance = users[id].balances[transfers[r].coin],
                                 ![r].at = "sender.save"]
  /\ UNCHANGED <<users, transactions, memberships, session, now, runs, approvals, env,
                 credits, page>>

TransferSaveSender(r) ==
  /\ r \in 1 .. Len(transfers)
  /\ transfers[r].at = "sender.save"
  /\ users' = [users EXCEPT ![transfers[r].sender].balances[transfers[r].coin] =
                              Debit(transfers[r].senderBalance, transfers[r].amount)]
  /\ transfers' = [transfers EXCEPT ![r].at = "receiver.save"]
  /\ UNCHANGED <<transactions, memberships, session, now, runs, approvals, env, credits, page>>

TransferSaveReceiver(r) ==
  /\ r \in 1 .. Len(transfers)
  /\ transfers[r].at = "receiver.save"
  /\ LET t == transfers[r]
         sent == NewTx(t.sender, "TRANSFER", t.coin, t.amount, "CONFIRMED",
                       [direction |-> "SENT", to |-> users[t.receiver].username])
         received == NewTx(t.receiver, "TRANSFER", t.coin, t.amount, "CONFIRMED",
                           [direction |-> "RECEIVED", from |-> users[t.sender].username])
     IN /\ users' = [users EXCEPT ![t.receiver].balances[t.coin] =
                                    Credit(t.receiverBalance, t.amount)]
        /\ transactions' = Append(Append(transactions, sent), received)
  /\ transfers' = Without(transfers, r)
  /\ UNCHANGED <<memberships, session, now, runs, approvals, env, credits, page>>

\* ------------------------------------------------- the price-chart page
\* the ids of the coins the page lists, and its timeframe keys
CoinIds == {"bitcoin", "ethereum"}

TIMEFRAMES == ("1H" :> 3600000) @@ ("6H" :> 21600000) @@ ("1D" :> 86400000)

Buttons == ("btn1h" :> "1H") @@ ("btn6h" :> "6H") @@ ("btn1d" :> "1D")

\* clearInterval(id)
clearInterval(timers, id) == {t \in timers : t.id # id}

\* loadChartData up to  await fetch(url): the interval that liveInterval
\* names is cleared, and the call waits for the chart data
loadChartData(pg, coinId, timeframeKey) ==
  IF coinId = "" THEN pg
  ELSE [pg EXCEPT !.timers = IF pg.liveInterval # 0 THEN clearInterval(@, pg.liveInterval) ELSE @,
                  !.liveInterval = 0,
                  !.pending = Append(@, [coinId |-> coinId, timeframeKey |-> timeframeKey])]

\* a call may start while the page is within the bounds on calls and intervals
Startable == Len(page.pending) < MaxPending /\ page.made + Len(page.pending) < MaxIntervals

\* openChart(coin): a click on a coin of the list
openChart(coin) ==
  /\ Startable
  /\ page' = loadChartData([page EXCEPT !.selectedCoin = coin], coin, "1D")
  /\ UNCHANGED server

\* a click on a timeframe button
ClickTimeframe(target) ==
  /\ Startable
  /\ page.selectedCoin # ""
  /\ target \in DOMAIN Buttons
  /\ page' = loadChartData(page, page.selectedCoin, Buttons[target])
  /\ UNCHANGED server

\* the chart fetch of pending call c is answered: with prices the call
\* replaces the chart and starts an interval, whose id it stores in
\* liveInterval; without them it reports the failure
FetchResolves(c, prices) ==
  /\ c \in 1 .. Len(page.pending)
  /\ page' =
       IF prices
         THEN [page EXCEPT !.priceChart = page.selectedCoin,
                           !.made = @ + 1,
                           !.liveInterval = page.made + 1,
                           !.timers = @ \cup {[id |-> page.made + 1,
                                               coinId |-> page.pending[c].coinId]},
                           !.pending = Without(@, c)]
         ELSE [page EXCEPT !.pending = Without(@, c)]
  /\ UNCHANGED server

\* the callback of an interval that is running: it pushes the latest price
\* of its coin onto the chart
LiveUpdate(t) ==
  /\ t \in page.timers
  /\ page.priceChart # ""
  /\ page' = [page EXCEPT !.fed = t.coinId]
  /\ UNCHANGED server

\* the server clock advances
Tick ==
  /\ now' = now + 1
  /\ UNCHANGED <<users, transactions, memberships, session, runs, approvals, env, credits, transfers, page>>

\* empty collections, no session; the server is configured with its key
Empty ==
  /\ users = <<>>
  /\ transactions = <<>>
  /\ memberships = <<>>
  /\ session = NoUser
  /\ now = 0
  /\ runs = <<>>
  /\ approvals = <<>>
  /\ credits = <<>>
  /\ transfers = <<>>
  /\ page = [selectedCoin |-> "", liveInterval |-> 0, priceChart |-> "", fed |-> "",
             timers |-> {}, made |-> 0, pending |-> <<>>]

Init == Empty /\ env = ADMIN_KEY

\* ------------------------------------------------------- specifications
\* a handler's outcome stays inside the bounds of the model
Requests(txs) == Len(SelectSeq(txs, LAMBDA t : t.type \in {"DEPOSIT", "WITHDRAW"}))

Within(out, maxLedger, maxMemberships) ==
  /\ Len(out.db.transactions) <= maxLedger
  /\ Requests(out.db.transactions) <= MaxRequests
  /\ Len(out.db.memberships) <= maxMemberships
  /\ \A i \in 1 .. Len(out.db.users) : \A c \in ALLOWED :
        out.db.users[i].balances[c] <= MaxBalance

InLedger(out) == Within(out, MaxLedger, MaxMemberships)

\* The ledger: requests of two users, transfers, the admin endpoints and the
\* scheduler within one day.
Next ==
  \/ \E i \in 1 .. Len(users) + 1 :
       i <= Len(Credentials) /\ Register(Credentials[i][1], Credentials[i][2], "pw")
  \/ \E i \in 1 .. Len(Credentials) : Login(Credentials[i][2], "pw")
  \/ Logout
  \/ \E b \in DepositBodies :
       InLedger(DepositOut(b[1], b[2], b[3])) /\ Deposit(b[1], b[2], b[3])
  \/ \E b \in WithdrawBodies :
       InLedger(WithdrawOut(b[1], b[2])) /\ Withdraw(b[1], b[2])
  \/ \E id \in TxIds : VerifyPayment(id)
  \/ Profile
  \/ Balances
  \/ Transactions
  \/ \E b \in TransferBodies :
       InLedger(InternalTransferOut(b[1], b[2], b[3])) /\ InternalTransfer(b[1], b[2], b[3])
  \/ \E id \in TxIds :
       InLedger(ApproveDepositOut(ADMIN_KEY, id)) /\ ApproveDeposit(ADMIN_KEY, id)
  \/ \E id \in TxIds, h \in Hashes : ApproveWithdraw(ADMIN_KEY, id, h)
  \/ \E id \in TxIds : DeclineTransaction(ADMIN_KEY, id)
  \/ \E k \in Keys : PendingDeposits(k)
  \/ \E k \in Keys : InLedger(CronPayoutsOut(k)) /\ CronPayouts(k)
  \/ (now < MaxTick /\ Tick)

Spec == Init /\ [][Next]_vars

InSchedule(out) == Within(out, Len(out.db.transactions), MaxPurchases)

\* The membership schedule: one user buys memberships and the scheduler runs
\* over the days of the schedule.
NextPayout ==
  \/ Register("a@x", "alice", "pw")
  \/ /\ Len(transactions) < MaxPurchases
     /\ \E b \in PurchaseBodies : Deposit(b[1], b[2], b[3])
  \/ \E id \in TxIds : InSchedule(ApproveDepositOut(ADMIN_KEY, id)) /\ ApproveDeposit(ADMIN_KEY, id)
  \/ \E k \in Keys : CronPayouts(k)
  \/ (now < MaxPayoutTick /\ Tick)

SpecPayout == Init /\ [][NextPayout]_vars

OverlapBodies == {<<"BTC", 1, "V1">>}

\* The membership schedule with scheduler requests that overlap: a membership
\* is bought at the first instant, and scheduler requests arrive at any time
\* over the days that follow.
NextOverlap ==
  \/ now = 0 /\ Register("a@x", "alice", "pw")
  \/ /\ now = 0
     /\ Len(transactions) < MaxPurchases
     /\ \E b \in OverlapBodies : Deposit(b[1], b[2], b[3])
  \/ \E id \in TxIds :
       \* the approval of any other record changes nothing
       /\ now = 0
       /\ transactions[id].status = "PENDING"
       /\ ApproveDeposit(ADMIN_KEY, id)
  \/ \E k \in Keys : CronStart(k)
  \/ \E r \in 1 .. MaxRuns : CronIterate(r)
  \/ (now < MaxOverlapTick /\ Tick)

SpecOverlap == Init /\ [][NextOverlap]_vars

RaceDeposits == {<<"BTC", 1, NoTier>>, <<"BTC", 2, NoTier>>}

\* Withdrawals of one user whose approvals overlap: deposits are approved one
\* at a time, withdrawals are requested, and approve-withdraw requests arrive
\* while others are in flight.
NextRace ==
  \/ Register("a@x", "alice", "pw")
  \/ \E b \in RaceDeposits :
       /\ Requests(DepositOut(b[1], b[2], b[3]).db.transactions) <= MaxRaceRequests
       /\ Deposit(b[1], b[2], b[3])
  \/ \E id \in TxIds :
       /\ transactions[id].status = "PENDING"
       /\ Within(ApproveDepositOut(ADMIN_KEY, id), MaxRaceRequests, 0)
       /\ ApproveDeposit(ADMIN_KEY, id)
  \/ \E b \in WithdrawBodies :
       /\ Requests(WithdrawOut(b[1], b[2]).db.transactions) <= MaxRaceRequests
       /\ Withdraw(b[1], b[2])
  \/ \E id \in TxIds, h \in Hashes : ApproveWithdrawLoadTx(ADMIN_KEY, id, h)
  \/ \E r \in 1 .. MaxApprovals : ApproveWithdrawLoadUser(r)
  \/ \E r \in 1 .. MaxApprovals : ApproveWithdrawSaveTx(r)
  \/ \E r \in 1 .. MaxApprovals : ApproveWithdrawSaveUser(r)

SpecRace == Init /\ [][NextRace]_vars

\* the requests in flight
InFlight == Len(approvals) + Len(credits) + Len(transfers) + Len(runs)

MixDeposits == {<<"BTC", 1, NoTier>>, <<"BTC", 1, "V1">>}
MixTransfers == {<<"alice", 1, "BTC">>, <<"bob", 1, "BTC">>}

\* Requests on one user's balances that overlap: deposits and withdrawals are
\* requested, and approve-deposit, approve-withdraw, internal-transfer and
\* payout requests arrive while others are in flight, each taking its reads
\* and saves one at a time.
NextMix ==
  \/ now = 0 /\ Register("a@x", "alice", "pw")
  \/ \E b \in MixDeposits :
       /\ now = 0
       /\ Len(transactions) < MaxMixLedger
       /\ Requests(transactions) < MaxRequests
       /\ Deposit(b[1], b[2], b[3])
  \/ \E b \in WithdrawBodies :
       /\ now = 0
       /\ Len(transactions) < MaxMixLedger
       /\ Requests(transactions) < MaxRequests
       /\ Withdraw(b[1], b[2])
  \/ \E id \in TxIds : InFlight < MaxApprovals /\ ApproveDepositLoadTx(ADMIN_KEY, id)
  \/ \E r \in 1 .. MaxApprovals : ApproveDepositSaveTx(r)
  \/ \E r \in 1 .. MaxApprovals : ApproveDepositLoadUser(r)
  \/ \E r \in 1 .. MaxApprovals : ApproveDepositSaveUser(r)
  \/ \E id \in TxIds, h \in Hashes :
       InFlight < MaxApprovals /\ ApproveWithdrawLoadTx(ADMIN_KEY, id, h)
  \/ \E r \in 1 .. MaxApprovals : ApproveWithdrawLoadUser(r)
  \/ \E r \in 1 .. MaxApprovals : ApproveWithdrawSaveTx(r)
  \/ \E r \in 1 .. MaxApprovals : ApproveWithdrawSaveUser(r)
  \/ \E b \in MixTransfers :
       /\ InFlight < MaxApprovals
       /\ Len(transactions) + 2 * (Len(transfers) + 1) <= MaxMixLedger
       /\ TransferLoadSender(b[1], b[2], b[3])
  \/ \E r \in 1 .. MaxApprovals : TransferLoadReceiver(r)
  \/ \E r \in 1 .. MaxApprovals : TransferSaveSender(r)
  \/ \E r \in 1 .. MaxApprovals : TransferSaveReceiver(r)
  \/ /\ InFlight < MaxApprovals
     /\ Len(transactions) + Len(runs) < MaxMixLedger
     /\ CronStart(ADMIN_KEY)
  \/ \E r \in 1 .. MaxRuns : CronPassLoad(r)
  \/ \E r \in 1 .. MaxRuns : CronPassSave(r)
  \/ (now < TicksPerDay /\ Tick)

SpecMix == Init /\ [][NextMix]_vars

\* The page: coins are opened, timeframe buttons are clicked, chart fetches
\* are answered in any order and the intervals in existence fire.
NextChart ==
  \/ \E coin \in CoinIds : openChart(coin)
  \/ \E target \in DOMAIN Buttons : ClickTimeframe(target)
  \/ \E c \in 1 .. MaxPending, prices \in BOOLEAN : FetchResolves(c, prices)
  \/ \E t \in page.timers : LiveUpdate(t)

SpecChart == Init /\ [][NextChart]_vars

\* The membership schedule with storage failures: one user buys up to two
\* memberships, and a scheduler request runs through or is cut short by a
\* storage operation that throws.
NextFail ==
  \/ Register("a@x", "alice", "pw")
  \/ /\ Len(SelectSeq(transactions, LAMBDA t : t.type = "DEPOSIT")) < MaxFailPurchases
     /\ Len(transactions) < MaxFailLedger
     /\ \E b \in PurchaseBodies : Deposit(b[1], b[2], b[3])
  \/ \E id \in TxIds :
       /\ transactions[id].status = "PENDING"
       /\ ApproveDeposit(ADMIN_KEY, id)
  \/ \E k \in Keys :
       /\ Len(CronPayoutsOut(k).db.transactions) <= MaxFailLedger
       /\ CronPayouts(k)
  \/ \E k \in 1 .. MaxFailPurchases, op \in StorageOps :
       /\ Len(CronPayoutsFailOut(ADMIN_KEY, k, op).db.transactions) <= MaxFailLedger
       /\ CronPayoutsFail(ADMIN_KEY, k, op)
  \/ (now < MaxFailTick /\ Tick)

SpecFail == Init /\ [][NextFail]_vars

\* what a request can carry in the header and in each query parameter
KeyParts == {Undefined, ADMIN_KEY, "guess"}

\* The admin endpoints under each configuration of the server: ADMIN_KEY set
\* or not set in the environment, and requests that carry a key in the
\* header, in a query parameter, or nowhere.
InitConfig == Empty /\ env \in {ADMIN_KEY, Undefined}

NextConfig ==
  \/ Register("a@x", "alice", "pw")
  \/ \E b \in DepositBodies :
       InLedger(DepositOut(b[1], b[2], b[3])) /\ Deposit(b[1], b[2], b[3])
  \/ \E b \in WithdrawBodies :
       InLedger(WithdrawOut(b[1], b[2])) /\ Withdraw(b[1], b[2])
  \/ \E id \in TxIds, h, q, a \in KeyParts :
       /\ InLedger(ApproveDepositOut(SuppliedKey(h, q, a), id))
       /\ ApproveDeposit(SuppliedKey(h, q, a), id)
  \/ \E id \in TxIds, h, q, a \in KeyParts, hash \in Hashes :
       ApproveWithdraw(SuppliedKey(h, q, a), id, hash)
  \/ \E id \in TxIds, h, q, a \in KeyParts :
       DeclineTransaction(SuppliedKey(h, q, a), id)

SpecConfig == InitConfig /\ [][NextConfig]_vars

\* the longest schedule among the tiers that are bought, in days
LongestSchedule ==
  LET days == {TIERS[b[3]].duration : b \in {x \in PurchaseBodies : KnownTier(x[3])}}
  IN CHOOSE d \in days : \A e \in days : e <= d

\* the clock passes midnight once the scheduler has been invoked on the date
\* that ends: a run now would pay nothing; it stops on the last date of the
\* longest schedule
TickLive ==
  /\ now < TicksPerDay * LongestSchedule - 1
  /\ toDateString(now + 1) # toDateString(now) => CronPayoutsOut(ADMIN_KEY).db = Db
  /\ Tick

\* The membership schedule with a scheduler that is invoked on every date:
\* memberships are bought on the first date, runs do not overlap, and a run
\* that is due is made before the date ends.
NextLive ==
  \/ now = 0 /\ Register("a@x", "alice", "pw")
  \/ /\ now = 0
     /\ Len(transactions) < MaxPurchases
     /\ \E b \in PurchaseBodies : Deposit(b[1], b[2], b[3])
  \/ \E id \in TxIds :
       /\ now = 0
       /\ transactions[id].status = "PENDING"
       /\ ApproveDeposit(ADMIN_KEY, id)
  \/ CronPayouts(ADMIN_KEY)
  \/ TickLive

SpecLive ==
  /\ Init
  /\ [][NextLive]_vars
  /\ WF_vars(CronPayouts(ADMIN_KEY))
  /\ WF_vars(TickLive)

\* ------------------------------------------------------------- properties
HasTier(meta) == "membershipTier" \in DOMAIN meta

Balance(us, u, c) == us[u].balances[c]

\* C1: approve-deposit on a PENDING DEPOSIT that carries no membership tier
\* confirms it and adds its amount to the owner's balance of its coin; every
\* other balance of every user stays as it was.
C1_ApproveDepositCredits ==
  \A id \in TxIds :
    LET tx == transactions[id]
        out == ApproveDepositOut(ADMIN_KEY, id)
    IN (tx.type = "DEPOSIT" /\ tx.status = "PENDING" /\ ~HasTier(tx.meta)) =>
         /\ out.db.transactions[id].status = "CONFIRMED"
         /\ Len(out.db.users) = Len(users)
         /\ \A u \in UserIds, c \in COINS :
              Balance(out.db.users, u, c) =
                Balance(users, u, c) + (IF u = tx.userId /\ c = tx.coin THEN tx.amount ELSE 0)

\* a plain deposit has been approved: it is CONFIRMED and its owner holds the amount
C1_Witness ==
  \E id \in TxIds :
    /\ transactions[id].type = "DEPOSIT"
    /\ transactions[id].status = "CONFIRMED"
    /\ ~HasTier(transactions[id].meta)
    /\ Balance(users, transactions[id].userId, transactions[id].coin) = transactions[id].amount
    /\ \E u \in UserIds : u # transactions[id].userId

\* C2: approve-deposit on a CONFIRMED deposit answers ok and changes nothing:
\* no balance, no membership, no status.
C2_ApproveConfirmedIsNoOp ==
  \A id \in TxIds :
    LET tx == transactions[id]
        out == ApproveDepositOut(ADMIN_KEY, id)
    IN (tx.type = "DEPOSIT" /\ tx.status = "CONFIRMED") =>
         /\ out.response.status = 200
         /\ out.db.users = users
         /\ out.db.memberships = memberships
         /\ out.db.transactions = transactions

\* a deposit was approved and credited, and a second approval is answered
\* "Already confirmed"
C2_Witness ==
  \E id \in TxIds :
    /\ transactions[id].type = "DEPOSIT"
    /\ transactions[id].status = "CONFIRMED"
    /\ Balance(users, transactions[id].userId, transactions[id].coin) = transactions[id].amount
    /\ ApproveDepositOut(ADMIN_KEY, id).response.message = "Already confirmed"

\* C3: approve-withdraw on a PENDING WITHDRAW whose amount is above the
\* owner's balance of the coin declines it, answers 400 and changes no balance.
C3_ApproveWithdrawDeclines ==
  \A id \in TxIds : \A h \in Hashes :
    LET tx == transactions[id]
        out == ApproveWithdrawOut(ADMIN_KEY, id, h)
    IN (tx.type = "WITHDRAW" /\ tx.status = "PENDING"
          /\ tx.amount > Balance(users, tx.userId, tx.coin)) =>
         /\ out.db.transactions[id].status = "DECLINED"
         /\ out.response.status = 400
         /\ out.db.users = users

\* a withdrawal accepted at request time is no longer covered at approval time
C3_Witness ==
  \E id \in TxIds :
    /\ transactions[id].type = "WITHDRAW"
    /\ transactions[id].status = "PENDING"
    /\ transactions[id].amount > Balance(users, transactions[id].userId, transactions[id].coin)
    /\ ApproveWithdrawOut(ADMIN_KEY, id, "0xabc").db.transactions[id].status = "DECLINED"

\* C4: no balance of any user in any coin is negative.
C4_BalancesNonNegative ==
  \A u \in UserIds, c \in COINS : Balance(users, u, c) >= 0

\* a withdrawal was approved that took the balance down to zero, and a
\* transfer was made
C4_Witness ==
  /\ \E id \in TxIds :
       /\ transactions[id].type = "WITHDRAW"
       /\ transactions[id].status = "CONFIRMED"
       /\ Balance(users, transactions[id].userId, transactions[id].coin) = 0
  /\ \E id \in TxIds : transactions[id].type = "TRANSFER"

\* C5: a transfer of a > 0 of a supported coin from the session user A to
\* another existing user B, covered by A's balance, moves a from A to B and
\* appends the SENT record of A and the RECEIVED record of B, both CONFIRMED.
C5_TransferMoves ==
  \A B \in UserIds, a \in 1 .. MaxBalance, c \in ALLOWED :
    LET A == session
        n == Len(transactions)
        out == InternalTransferOut(users[B].username, a, c)
    IN (A \in UserIds /\ B # A /\ Balance(users, A, c) >= a) =>
         /\ out.response.status = 200
         /\ Balance(out.db.users, A, c) = Balance(users, A, c) - a
         /\ Balance(out.db.users, B, c) = Balance(users, B, c) + a
         /\ Len(out.db.transactions) = n + 2
         /\ SubSeq(out.db.transactions, 1, n) = transactions
         /\ LET sent == out.db.transactions[n + 1]
                received == out.db.transactions[n + 2]
            IN /\ sent.userId = A /\ received.userId = B
               /\ sent.meta.direction = "SENT" /\ sent.meta.to = users[B].username
               /\ received.meta.direction = "RECEIVED"
               /\ received.meta.from = users[A].username
               /\ \A t \in {sent, received} :
                    /\ t.type = "TRANSFER" /\ t.status = "CONFIRMED"
                    /\ t.coin = c /\ t.amount = a

\* a transfer between two users has been made: the sender is down to zero
\* and the recipient holds the amount
C5_Witness ==
  \E i, j \in TxIds :
    /\ transactions[i].type = "TRANSFER" /\ transactions[i].meta.direction = "SENT"
    /\ transactions[j].type = "TRANSFER" /\ transactions[j].meta.direction = "RECEIVED"
    /\ transactions[i].userId # transactions[j].userId
    /\ Balance(users, transactions[i].userId, transactions[i].coin) = 0
    /\ Balance(users, transactions[j].userId, transactions[j].coin) = transactions[j].amount

\* ---------------------------------------------- properties of the schedule
MembershipIds == 1 .. Len(memberships)

\* the daily payout records of membership m in a ledger
PayoutsOf(txs, m) ==
  {i \in 1 .. Len(txs) : txs[i].type = "MEMBERSHIP_PAYOUT" /\ txs[i].meta.membershipId = m}

DateOf(t) == t \div TicksPerDay

PaidOn(m, day) == m.lastPayout # NoDate /\ DateOf(m.lastPayout) = day

MembershipsOf(u) == {m \in MembershipIds : memberships[m].userId = u}

RECURSIVE Earned(_)
\* what the memberships in the set ms have been paid, by their own counters
Earned(ms) ==
  IF ms = {} THEN 0
  ELSE LET m == CHOOSE x \in ms : TRUE
           mm == memberships[m]
       IN mm.daysPaid * mm.dailyAmount
            + (IF mm.bonusPaid THEN mm.bonusAtMonthEnd ELSE 0)
            + Earned(ms \ {m})

\* C6: no membership has two daily payout records created on the same
\* calendar date, and a scheduler run on a date on which a membership was
\* already paid records no payout for it and reports it as skipped.
C6_PaidTodayListedAsSkipped ==
  LET out == CronPayoutsOut(ADMIN_KEY)
      today == DateOf(now)
  IN
  /\ \A m \in MembershipIds : \A i, j \in PayoutsOf(transactions, m) :
       i # j => DateOf(transactions[i].createdAt) # DateOf(transactions[j].createdAt)
  /\ \A m \in MembershipIds :
       PaidOn(memberships[m], today) =>
         /\ PayoutsOf(out.db.transactions, m) = PayoutsOf(transactions, m)
         /\ \E k \in 1 .. Len(out.response.results) :
              /\ out.response.results[k].membership = m
              /\ out.response.results[k].skipped = "already paid today"

\* The part of the same-date behaviour that the scheduler does keep: no
\* membership has two daily payout records created on the same calendar date;
\* a run leaves a membership that was paid today and is still ACTIVE as it
\* is, records no payout for it and lists it as skipped ("already paid
\* today"); a membership that today's payout completed gets no further
\* payout either; and a run credits nothing to a user whose ACTIVE
\* memberships were all paid today.
OnePayoutPerDate ==
  LET out == CronPayoutsOut(ADMIN_KEY)
      today == DateOf(now)
  IN
  /\ \A m \in MembershipIds : \A i, j \in PayoutsOf(transactions, m) :
       i # j => DateOf(transactions[i].createdAt) # DateOf(transactions[j].createdAt)
  /\ \A m \in MembershipIds :
       (memberships[m].status = "ACTIVE" /\ PaidOn(memberships[m], today)) =>
         /\ out.db.memberships[m] = memberships[m]
         /\ PayoutsOf(out.db.transactions, m) = PayoutsOf(transactions, m)
         /\ \E k \in 1 .. Len(out.response.results) :
              /\ out.response.results[k].membership = m
              /\ out.response.results[k].skipped = "already paid today"
  /\ \A m \in MembershipIds :
       PaidOn(memberships[m], today) =>
         PayoutsOf(out.db.transactions, m) = PayoutsOf(transactions, m)
  /\ \A u \in UserIds :
       (\A m \in MembershipsOf(u) :
          memberships[m].status = "ACTIVE" => PaidOn(memberships[m], today)) =>
         Balance(out.db.users, u, "USD") = Balance(users, u, "USD")

\* the last daily payout was made earlier today and completed the
\* membership: a further run on this date answers with an empty result list
C6_Witness ==
  \E m \in MembershipIds :
    /\ memberships[m].status = "COMPLETED"
    /\ PaidOn(memberships[m], DateOf(now))
    /\ memberships[m].lastPayout < now
    /\ CronPayoutsOut(ADMIN_KEY).response.results = <<>>

\* the last daily payout of a membership lies on an earlier date and its
\* bonus is still unpaid
C7_Witness ==
  \E m \in MembershipIds :
    /\ memberships[m].daysPaid = memberships[m].durationDays
    /\ ~memberships[m].bonusPaid
    /\ DateOf(now) > DateOf(memberships[m].lastPayout)
    /\ CronPayoutsOut(ADMIN_KEY).db = Db

\* C7: once a membership has daysPaid = durationDays and its bonus is unpaid,
\* a scheduler run on a later calendar date pays the bonus: it sets the
\* bonus-paid flag, records a CONFIRMED PAYOUT of the bonus amount and adds
\* the bonus to the owner's USD balance.
C7_BonusPaidAfterCompletion ==
  LET out == CronPayoutsOut(ADMIN_KEY) IN
  \A m \in MembershipIds :
    LET mm == memberships[m] IN
    (mm.daysPaid = mm.durationDays /\ ~mm.bonusPaid /\ mm.lastPayout # NoDate
       /\ DateOf(now) > DateOf(mm.lastPayout)) =>
      /\ out.db.memberships[m].bonusPaid
      /\ Balance(out.db.users, mm.userId, "USD") >= Balance(users, mm.userId, "USD") + mm.bonusAtMonthEnd
      /\ \E i \in (Len(transactions) + 1) .. Len(out.db.transactions) :
           /\ out.db.transactions[i].type = "PAYOUT"
           /\ out.db.transactions[i].status = "CONFIRMED"
           /\ out.db.transactions[i].amount = mm.bonusAtMonthEnd

C9_DailySchedule ==
  LET out == CronPayoutsOut(ADMIN_KEY) IN
  /\ \A m \in MembershipIds :
       LET mm == memberships[m]
           P == PayoutsOf(transactions, m)
           d == TIERS[mm.tier].daily
           n == TIERS[mm.tier].duration
       IN /\ Cardinality(P) = mm.daysPaid
          /\ Cardinality({DateOf(transactions[i].createdAt) : i \in P}) = mm.daysPaid
          /\ \A i \in P : /\ transactions[i].status = "CONFIRMED"
                          /\ transactions[i].amount = d
                          /\ transactions[i].coin = "USD"
                          /\ transactions[i].userId = mm.userId
          /\ mm.daysPaid <= n
          /\ mm.status = IF mm.daysPaid < n THEN "ACTIVE" ELSE "COMPLETED"
          /\ (mm.status = "ACTIVE" /\ ~PaidOn(mm, DateOf(now))) =>
               /\ out.db.memberships[m].daysPaid = mm.daysPaid + 1
               /\ Cardinality(PayoutsOf(out.db.transactions, m)) = mm.daysPaid + 1
  /\ \A u \in UserIds : Balance(users, u, "USD") = Earned(MembershipsOf(u))

\* the example of tier V1: paid on 5 dates, daysPaid 5, COMPLETED, USD + 50
C9_Witness ==
  \E m \in MembershipIds :
    /\ memberships[m].tier = "V1"
    /\ memberships[m].daysPaid = 5
    /\ memberships[m].status = "COMPLETED"
    /\ Cardinality(PayoutsOf(transactions, m)) = 5
    /\ Balance(users, memberships[m].userId, "USD") = 50

\* C10: approve-deposit on a PENDING DEPOSIT marked as the purchase of a tier
\* V1..V5 confirms it, changes no balance, creates exactly one membership
\* (ACTIVE, daysPaid 0, bonus unpaid, duration, daily amount and bonus of the
\* tier) and sets the owner's membership reference to the tier.
C10_ApproveActivatesMembership ==
  \A id \in TxIds :
    LET tx == transactions[id]
        out == ApproveDepositOut(ADMIN_KEY, id)
        n == Len(memberships)
    IN (tx.type = "DEPOSIT" /\ tx.status = "PENDING" /\ "isMembership" \in DOMAIN tx.meta
          /\ tx.meta.isMembership /\ tx.meta.membershipTier \in {"V1", "V2", "V3", "V4", "V5"}) =>
         LET tier == tx.meta.membershipTier IN
         /\ out.db.transactions[id].status = "CONFIRMED"
         /\ Len(out.db.users) = Len(users)
         /\ \A u \in UserIds : out.db.users[u].balances = users[u].balances
         /\ out.db.users[tx.userId].membership = tier
         /\ Len(out.db.memberships) = n + 1
         /\ SubSeq(out.db.memberships, 1, n) = memberships
         /\ LET m == out.db.memberships[n + 1]
            IN /\ m.userId = tx.userId /\ m.tier = tier
               /\ m.status = "ACTIVE" /\ m.daysPaid = 0 /\ m.bonusPaid = FALSE
               /\ m.durationDays = TIERS[tier].duration
               /\ m.dailyAmount = TIERS[tier].daily
               /\ m.bonusAtMonthEnd = TIERS[tier].bonus

\* a membership purchase has been approved: the deposit is CONFIRMED, the
\* membership is there and unpaid, and the owner's balance of the coin is 0
C10_Witness ==
  \E id \in TxIds, m \in MembershipIds :
    /\ transactions[id].type = "DEPOSIT" /\ transactions[id].status = "CONFIRMED"
    /\ HasTier(transactions[id].meta)
    /\ memberships[m].tier = transactions[id].meta.membershipTier
    /\ memberships[m].tier = "V2"
    /\ memberships[m].daysPaid = 0
    /\ users[transactions[id].userId].membership = "V2"
    /\ Balance(users, transactions[id].userId, transactions[id].coin) = 0

\* -------------------------------------------- properties of the admin gate
Terminal == {"CONFIRMED", "DECLINED"}

\* a CONFIRMED deposit that decline-transaction would set DECLINED, and a
\* DECLINED deposit that approve-deposit would set CONFIRMED
C11_Witness ==
  /\ \E id \in TxIds :
       /\ transactions[id].status = "CONFIRMED"
       /\ DeclineTransactionOut(ADMIN_KEY, id).db.transactions[id].status = "DECLINED"
  /\ \E id \in TxIds :
       /\ transactions[id].status = "DECLINED"
       /\ ApproveDepositOut(ADMIN_KEY, id).db.transactions[id].status = "CONFIRMED"

\* C11: once the status of a transaction is CONFIRMED or DECLINED, no step
\* changes it.
C11_StatusTerminal ==
  [][\A id \in TxIds :
       transactions[id].status \in Terminal =>
         transactions'[id].status = transactions[id].status]_vars

ActiveOf(ms, u) == {m \in 1 .. Len(ms) : ms[m].userId = u /\ ms[m].status = "ACTIVE"}

\* a user with an ACTIVE membership has a second membership purchase PENDING,
\* and its approval creates a second membership
C12_Witness ==
  \E id \in TxIds :
    LET tx == transactions[id] IN
    /\ tx.status = "PENDING" /\ IsMembershipPurchase(tx.meta)
    /\ Cardinality(ActiveOf(memberships, tx.userId)) = 1
    /\ Len(ApproveDepositOut(ADMIN_KEY, id).db.memberships) = Len(memberships) + 1

\* C12: no user owns more than one membership with status ACTIVE.
C12_OneActiveMembership ==
  \A u \in UserIds : Cardinality(ActiveOf(memberships, u)) <= 1

\* C13: decline-transaction on an existing transaction of any type and status
\* sets its status to DECLINED, changes nothing else of the ledger, and
\* leaves every user and every membership as they were.
C13_DeclineOnlyMarks ==
  \A id \in TxIds :
    LET out == DeclineTransactionOut(ADMIN_KEY, id) IN
    /\ out.response.status = 200
    /\ out.db.transactions[id].status = "DECLINED"
    /\ out.db.transactions = [transactions EXCEPT ![id].status = "DECLINED"]
    /\ out.db.users = users
    /\ out.db.memberships = memberships

\* a deposit that was approved and credited is declined: the credit stays
C13_Witness ==
  \E id \in TxIds :
    LET tx == transactions[id] IN
    /\ tx.type = "DEPOSIT" /\ tx.status = "DECLINED" /\ ~HasTier(tx.meta)
    /\ Balance(users, tx.userId, tx.coin) >= tx.amount
    /\ \E j \in TxIds : transactions[j].type = "TRANSFER"
    /\ \E j \in TxIds : transactions[j].type = "WITHDRAW" /\ transactions[j].status = "CONFIRMED"

\* keys a caller may supply that are not the configured one
WrongKeys == (Keys \cup {"alice", "pw", "admin"}) \ {ADMIN_KEY}

\* C14: every admin-gated endpoint called with a key other than ADMIN_KEY
\* answers 401 and changes no transaction, user or membership, whether or
\* not a user is logged in.
C14_WrongKeyRejected ==
  \A k \in WrongKeys :
    \A out \in {PendingDepositsOut(k), CronPayoutsOut(k)}
                \cup {ApproveDepositOut(k, id) : id \in 0 .. Len(transactions) + 1}
                \cup {ApproveWithdrawOut(k, id, h) : id \in 0 .. Len(transactions) + 1, h \in Hashes}
                \cup {DeclineTransactionOut(k, id) : id \in 0 .. Len(transactions) + 1} :
      /\ out.response.status = 401
      /\ out.db = Db
      /\ out.session = session

\* a user is logged in, a deposit is PENDING and a membership is unpaid: with
\* ADMIN_KEY the approval and the scheduler would act, with another key they
\* answer 401
C14_Witness ==
  /\ session # NoUser
  /\ \E id \in TxIds :
       /\ transactions[id].status = "PENDING"
       /\ ApproveDepositOut(ADMIN_KEY, id).db # Db
       /\ ApproveDepositOut("guess", id).response.status = 401
  /\ CronPayoutsOut(ADMIN_KEY).db # Db
  /\ CronPayoutsOut("guess").response.status = 401

\* ------------------------------------------ properties of the user requests
\* C15: a withdraw request of the logged-in user for a supported coin and an
\* amount above the balance answers 400 "Insufficient balance" and changes
\* nothing; an amount within the balance appends exactly one PENDING WITHDRAW
\* of the user and changes no balance.
C15_WithdrawRequest ==
  \A c \in ALLOWED, a \in 1 .. MaxBalance + 1 :
    LET out == WithdrawOut(c, a)
        n == Len(transactions)
    IN session \in UserIds =>
         IF a > Balance(users, session, c)
           THEN /\ out.response.status = 400
                /\ out.response.message = "Insufficient balance"
                /\ out.db = Db
           ELSE /\ out.response.status = 200
                /\ out.db.users = users
                /\ out.db.memberships = memberships
                /\ Len(out.db.transactions) = n + 1
                /\ SubSeq(out.db.transactions, 1, n) = transactions
                /\ LET tx == out.db.transactions[n + 1]
                   IN /\ tx.type = "WITHDRAW" /\ tx.status = "PENDING"
                      /\ tx.userId = session /\ tx.coin = c /\ tx.amount = a

\* a withdrawal of the whole balance is PENDING, the balance is still there,
\* and a request for more is refused
C15_Witness ==
  \E id \in TxIds :
    LET tx == transactions[id] IN
    /\ tx.type = "WITHDRAW" /\ tx.status = "PENDING" /\ tx.userId = session
    /\ Balance(users, session, tx.coin) = tx.amount
    /\ WithdrawOut(tx.coin, tx.amount + 1).response.message = "Insufficient balance"

\* C16: a deposit request of a logged-in user is accepted exactly when the
\* coin is one of BTC, ETH, USDT, BNB, ADA and the amount is above zero: it
\* then appends exactly one PENDING DEPOSIT of the session user, tagged
\* isMembership with the tier when a tier is supplied and untagged
\* otherwise; every other request answers 400 and changes nothing.
C16_DepositRequest ==
  \A c \in COINS \cup {"", "DOGE"}, a \in -1 .. 2, tier \in {NoTier, "V1", "V9"} :
    LET out == DepositOut(c, a, tier)
        n == Len(transactions)
    IN needAuth =>
         IF c \in {"BTC", "ETH", "USDT", "BNB", "ADA"} /\ a > 0
           THEN /\ out.response.status = 200
                /\ out.db.users = users
                /\ out.db.memberships = memberships
                /\ Len(out.db.transactions) = n + 1
                /\ SubSeq(out.db.transactions, 1, n) = transactions
                /\ LET tx == out.db.transactions[n + 1]
                   IN /\ tx.type = "DEPOSIT" /\ tx.status = "PENDING"
                      /\ tx.userId = session /\ tx.coin = c /\ tx.amount = a
                      /\ tx.meta = IF tier = NoTier
                                     THEN EmptyMeta
                                     ELSE [isMembership |-> TRUE, membershipTier |-> tier]
           ELSE /\ out.response.status = 400
                /\ out.db = Db

\* the logged-in user has a plain and a membership deposit PENDING, and a
\* deposit of USD is refused
C16_Witness ==
  /\ \E i, j \in TxIds :
       /\ transactions[i].type = "DEPOSIT" /\ transactions[i].userId = session
       /\ transactions[i].status = "PENDING" /\ transactions[i].meta = EmptyMeta
       /\ transactions[j].type = "DEPOSIT" /\ transactions[j].userId = session
       /\ transactions[j].status = "PENDING" /\ IsMembershipPurchase(transactions[j].meta)
  /\ DepositOut("USD", 1, NoTier).response.message = "Unsupported coin"

\* what the endpoints behind the session gate, and register, login and
\* logout, answer to the requests of the model and to rejected ones
UserOuts ==
  {ProfileOut, BalancesOut, TransactionsOut, LogoutOut}
    \cup {RegisterOut(e, u, "pw") : e \in {"a@x", "b@x", "c@x"}, u \in {"alice", "bob", "carol"}}
    \cup {LoginOut(u, pw) : u \in {"alice", "b@x", "carol"}, pw \in {"pw", "bad"}}
    \cup {DepositOut(c, a, tier) : c \in {"BTC", "USDT", "USD"}, a \in 0 .. 2, tier \in {NoTier, "V1"}}
    \cup {WithdrawOut(c, a) : c \in {"BTC", "USDT", "USD"}, a \in 0 .. MaxBalance + 1}
    \cup {VerifyPaymentOut(id) : id \in 0 .. Len(transactions) + 1}

TransferOuts ==
  {InternalTransferOut(r, a, c) :
     r \in {"alice", "bob", "carol"}, a \in 0 .. MaxBalance + 1, c \in {"BTC", "USDT", "USD"}}

\* C17: no endpoint behind the session gate and no scheduler run changes a
\* transaction that exists; the records they add start PENDING when they
\* are deposits or withdrawals and CONFIRMED when they are transfers or
\* payouts.
C17_StatusOnlyByAdmin ==
  \A out \in UserOuts \cup TransferOuts \cup {CronPayoutsOut(ADMIN_KEY)} :
    LET n == Len(transactions)
        txs == out.db.transactions
    IN /\ Len(txs) >= n
       /\ SubSeq(txs, 1, n) = transactions
       /\ \A i \in (n + 1) .. Len(txs) :
            /\ txs[i].type \in {"DEPOSIT", "WITHDRAW"} => txs[i].status = "PENDING"
            /\ txs[i].type \in {"TRANSFER", "PAYOUT", "MEMBERSHIP_PAYOUT"} =>
                 txs[i].status = "CONFIRMED"
            /\ txs[i].type \in {"DEPOSIT", "WITHDRAW", "TRANSFER", "PAYOUT", "MEMBERSHIP_PAYOUT"}

\* the scheduler has recorded a payout, the logged-in user has a deposit
\* PENDING and looks it up
C17_Witness ==
  /\ \E i \in TxIds :
       transactions[i].type = "MEMBERSHIP_PAYOUT" /\ transactions[i].status = "CONFIRMED"
  /\ \E i \in TxIds :
       /\ transactions[i].type = "DEPOSIT" /\ transactions[i].status = "PENDING"
       /\ transactions[i].userId = session
       /\ VerifyPaymentOut(i).response.message = "PENDING"

\* C18: register, login, logout, deposit, withdraw, verify-payment, profile,
\* balances and transactions leave every stored balance of every existing
\* user as it was (register adds a user whose balances are all zero).
C18_NoBalanceChangeByUser ==
  \A out \in UserOuts :
    /\ Len(out.db.users) >= Len(users)
    /\ \A u \in UserIds : out.db.users[u].balances = users[u].balances
    /\ \A u \in (Len(users) + 1) .. Len(out.db.users) :
         out.db.users[u].balances = ZeroBalances

\* a transfer has changed the balances of two users; the recipient is logged
\* in, holds the amount and has asked to withdraw it
C18_Witness ==
  /\ \E i \in TxIds :
       /\ transactions[i].type = "TRANSFER" /\ transactions[i].meta.direction = "RECEIVED"
       /\ transactions[i].userId = session
       /\ Balance(users, session, transactions[i].coin) = transactions[i].amount
  /\ \E i \in TxIds :
       /\ transactions[i].type = "WITHDRAW" /\ transactions[i].status = "PENDING"
       /\ transactions[i].userId = session
  /\ ProfileOut.response.status = 200
  /\ \E out \in TransferOuts : out.db.users # users

\* C19: no two users share an email and no two share a username; a register
\* request with the email or the username of an existing user answers with
\* an error, creates no user and leaves the session as it was.
C19_UniqueUsers ==
  /\ \A i, j \in UserIds :
       i # j => /\ users[i].email # users[j].email
                /\ users[i].username # users[j].username
  /\ \A e \in {"a@x", "b@x", "c@x"}, u \in {"alice", "bob", "carol"} :
       LET out == RegisterOut(e, u, "pw") IN
       (\E i \in UserIds : users[i].email = e \/ users[i].username = u) =>
         /\ out.response.status = 400
         /\ out.db = Db
         /\ out.session = session

\* ------------------------------------------- the scalar-balance server
\* The version of the server that keeps one number per user, user.balance,
\* and no memberships.
ScalarBodies == {<<"BTC", 1>>, <<"BTC", 2>>}

\* POST /api/register
ScalarRegisterOut(email, username, password) ==
  IF email = "" \/ username = "" \/ password = ""
    THEN Out(Db, session, Reply("register", 0, 400, "All fields required"))
  ELSE IF FindUser(Taken(email, username)) # NoUser
    THEN Out(Db, session, Reply("register", 0, 400, "User exists"))
  ELSE
    LET user == [email |-> email, username |-> username, password |-> Hash(password),
                 balance |-> 0]
    IN Out([Db EXCEPT !.users = Append(users, user)], Len(users) + 1,
           Reply("register", 0, 200, "ok"))

ScalarRegister(email, username, password) ==
  Serve(ScalarRegisterOut(email, username, password))

\* POST /api/deposit
ScalarDepositOut(coin, amount) ==
  IF ~needAuth
    THEN Out(Db, session, Reply("deposit", 0, 401, "Please login"))
  ELSE IF coin = "" \/ amount = 0 \/ amount <= 0
    THEN Out(Db, session, Reply("deposit", 0, 400, "Invalid deposit"))
  ELSE
    LET tx == NewTx(session, "DEPOSIT", coin, amount, "PENDING", EmptyMeta)
    IN Out([Db EXCEPT !.transactions = Append(transactions, tx)], session,
           Reply("deposit", Len(transactions) + 1, 200, "ok"))

ScalarDeposit(coin, amount) == Serve(ScalarDepositOut(coin, amount))

\* POST /api/withdraw
ScalarWithdrawOut(coin, amount) ==
  IF ~needAuth
    THEN Out(Db, session, Reply("withdraw", 0, 401, "Please login"))
  ELSE IF coin = "" \/ amount = 0 \/ amount <= 0
    THEN Out(Db, session, Reply("withdraw", 0, 400, "Invalid withdrawal"))
  ELSE IF users[session].balance < amount
    THEN Out(Db, session, Reply("withdraw", 0, 400, "Insufficient balance"))
  ELSE
    LET tx == NewTx(session, "WITHDRAW", coin, amount, "PENDING", EmptyMeta)
    IN Out([Db EXCEPT !.transactions = Append(transactions, tx)], session,
           Reply("withdraw", Len(transactions) + 1, 200, "ok"))

ScalarWithdraw(coin, amount) == Serve(ScalarWithdrawOut(coin, amount))

\* POST /api/admin/approve-deposit: the status is set and the balance
\* credited whatever the status was
ScalarApproveDepositOut(key, txId) ==
  IF ~requireAdmin(key)
    THEN Out(Db, session, Reply("approve-deposit", txId, 401, "Unauthorized admin"))
  ELSE IF txId \notin TxIds
    THEN Out(Db, session, Reply("approve-deposit", txId, 200, "Not found"))
  ELSE
    LET tx == transactions[txId]
        confirmed == [transactions EXCEPT ![txId].status = "CONFIRMED"]
    IN IF tx.userId \notin UserIds
         \* user.balance of null throws after tx.save(): the catch answers
         THEN Out([Db EXCEPT !.transactions = confirmed], session,
                  Reply("approve-deposit", txId, 200, "error"))
         ELSE Out([Db EXCEPT !.transactions = confirmed,
                             !.users[tx.userId].balance = @ + tx.amount],
                  session, Reply("approve-deposit", txId, 200, "ok"))

ScalarApproveDeposit(key, txId) == Serve(ScalarApproveDepositOut(key, txId))

\* user.balance -= tx.amount; if (user.balance < 0) user.balance = 0
Clamped(balance, amount) == IF balance - amount < 0 THEN 0 ELSE balance - amount

\* POST /api/admin/approve-withdraw: the status is set whatever the balance
ScalarApproveWithdrawOut(key, txId, tx_hash) ==
  IF ~requireAdmin(key)
    THEN Out(Db, session, Reply("approve-withdraw", txId, 401, "Unauthorized admin"))
  ELSE IF txId \notin TxIds
    THEN Out(Db, session, Reply("approve-withdraw", txId, 200, "Not found"))
  ELSE
    LET tx == transactions[txId]
        confirmed == [transactions EXCEPT ![txId].status = "CONFIRMED",
                                          ![txId].meta = [tx_hash |-> tx_hash]]
    IN IF tx.userId \notin UserIds
         THEN Out([Db EXCEPT !.transactions = confirmed], session,
                  Reply("approve-withdraw", txId, 200, "error"))
         ELSE Out([Db EXCEPT !.transactions = confirmed,
                             !.users[tx.userId].balance = Clamped(@, tx.amount)],
                  session, Reply("approve-withdraw", txId, 200, "ok"))

ScalarApproveWithdraw(key, txId, tx_hash) ==
  Serve(ScalarApproveWithdrawOut(key, txId, tx_hash))

\* POST /api/admin/decline-transaction
ScalarDeclineOut(key, txId) ==
  IF ~requireAdmin(key)
    THEN Out(Db, session, Reply("decline-transaction", txId, 401, "Unauthorized admin"))
  ELSE IF txId = 0
    THEN Out(Db, session, Reply("decline-transaction", txId, 400, "txId required"))
  ELSE IF txId \notin TxIds
    THEN Out(Db, session, Reply("decline-transaction", txId, 404, "Transaction not found"))
  ELSE Out([Db EXCEPT !.transactions[txId].status = "DECLINED"], session,
           Reply("decline-transaction", txId, 200, "Transaction declined"))

ScalarDecline(key, txId) == Serve(ScalarDeclineOut(key, txId))

\* a handler's outcome stays inside the bounds of the scalar model
InScalar(out) ==
  /\ Len(out.db.transactions) <= MaxScalarLedger
  /\ \A i \in 1 .. Len(out.db.users) : out.db.users[i].balance <= MaxScalarBalance

\* The scalar-balance server: one user's deposits and withdrawals, and the
\* admin approving deposits, approving withdrawals and declining.
NextScalar ==
  \/ ScalarRegister("a@x", "alice", "pw")
  \/ \E b \in ScalarBodies :
       InScalar(ScalarDepositOut(b[1], b[2])) /\ ScalarDeposit(b[1], b[2])
  \/ \E b \in ScalarBodies :
       InScalar(ScalarWithdrawOut(b[1], b[2])) /\ ScalarWithdraw(b[1], b[2])
  \/ \E id \in TxIds :
       /\ transactions[id].type = "DEPOSIT"
       /\ InScalar(ScalarApproveDepositOut(ADMIN_KEY, id))
       /\ ScalarApproveDeposit(ADMIN_KEY, id)
  \/ \E id \in TxIds, h \in Hashes :
       /\ transactions[id].type = "WITHDRAW"
       /\ ScalarApproveWithdraw(ADMIN_KEY, id, h)
  \/ \E id \in TxIds : ScalarDecline(ADMIN_KEY, id)

SpecScalar == Init /\ [][NextScalar]_vars

\* two users are registered, the first one is logged in, and a registration
\* with a new email and the name of the first user is refused
C19_Witness ==
  /\ Len(users) = 2
  /\ session = 1
  /\ RegisterOut("c@x", "alice", "pw").response.message = "User exists"
  /\ RegisterOut("c@x", "carol", "pw").response.status = 200

\* ------------------------------------- properties of overlapping scheduler runs
\* C20: every membership has daysPaid <= durationDays, also when scheduler
\* requests overlap.
C20_DaysPaidBounded ==
  \A m \in MembershipIds : memberships[m].daysPaid <= memberships[m].durationDays

\* two overlapping runs have both paid a membership on one date, and the
\* membership has been paid through
C20_Witness ==
  \E m \in MembershipIds :
    /\ memberships[m].daysPaid = memberships[m].durationDays
    /\ \E i, j \in PayoutsOf(transactions, m) :
         i # j /\ DateOf(transactions[i].createdAt) = DateOf(transactions[j].createdAt)

\* C21: when scheduler runs overlap on one calendar date, so that a run has
\* loaded a membership before another run saved its payout of that date, the
\* later pass still passes the date check: it creates a second
\* MEMBERSHIP_PAYOUT record of the membership on that date.
C21_OverlapPaysTwice ==
  [][\A r \in 1 .. Len(runs) :
       LET h == Head(runs[r].todo)
           before == PayoutsOf(transactions, h.id)
           after == PayoutsOf(transactions', h.id)
       IN ( /\ CronIterate(r)
            /\ ~PaidOn(h.m, DateOf(now))
            /\ h.m.daysPaid < h.m.durationDays
            /\ PaidOn(memberships[h.id], DateOf(now)) )
          => /\ after = before \cup {Len(transactions')}
             /\ Len(transactions') = Len(transactions) + 1
             /\ \E i \in before :
                  DateOf(transactions[i].createdAt) = DateOf(transactions'[Len(transactions')].createdAt)
             /\ Balance(users', h.m.userId, "USD")
                  = Balance(users, h.m.userId, "USD") + h.m.dailyAmount]_vars

\* a membership has two payout records of one date while a run that loaded
\* it before the first of them is past it, and its counter shows one day
C21_Witness ==
  \E m \in MembershipIds :
    /\ memberships[m].daysPaid = 1
    /\ \E i, j \in PayoutsOf(transactions, m) :
         /\ i # j
         /\ DateOf(transactions[i].createdAt) = DateOf(now)
         /\ DateOf(transactions[j].createdAt) = DateOf(now)

\* ------------------------------------ properties of overlapping approvals
\* two approve-withdraw requests in flight for different withdrawals of one
\* user and coin: both hold the balance they read, the same one, and neither
\* has saved anything yet
Racing(a, b) ==
  /\ a # b
  /\ approvals[a].txId # approvals[b].txId
  /\ approvals[a].tx.userId = approvals[b].tx.userId
  /\ approvals[a].tx.coin = approvals[b].tx.coin
  /\ approvals[a].at = "tx.save" /\ approvals[b].at = "tx.save"
  /\ approvals[a].current = approvals[b].current

\* the store after the saves request a still has to make
Finish(db, a) ==
  IF a.at = "tx.save"
    THEN IF Exceeds(a.tx.amount, Current(db, a)) THEN SaveTx(db, a)
         ELSE SaveUser(SaveTx(db, a), a)
    ELSE SaveUser(db, a)

\* C22: when two approve-withdraw requests for different withdrawals of one
\* user and coin have both read the balance before either saved its
\* deduction, and each amount is within the balance read, both pass the
\* balance test and their saves leave both withdrawals CONFIRMED, also when
\* the two amounts together exceed that balance; the balance left is what
\* the last save wrote.
C22_RacingApprovalsBothConfirm ==
  \A a, b \in 1 .. Len(approvals) :
    ( /\ Racing(a, b)
      /\ approvals[a].tx.amount <= approvals[a].current
      /\ approvals[b].tx.amount <= approvals[b].current )
    => LET end == Finish(Finish(Db, approvals[a]), approvals[b])
       IN /\ end.transactions[approvals[a].txId].status = "CONFIRMED"
          /\ end.transactions[approvals[b].txId].status = "CONFIRMED"
          /\ end.users[approvals[b].tx.userId].balances[approvals[b].tx.coin]
               = approvals[b].current - approvals[b].tx.amount

\* the confirmed withdrawals of a user's coin exceed what was ever credited:
\* a balance of 1 from one approved deposit, and two CONFIRMED withdrawals
C22_Witness ==
  /\ approvals = <<>>
  /\ \E i, j \in TxIds :
       /\ i # j
       /\ transactions[i].type = "WITHDRAW" /\ transactions[j].type = "WITHDRAW"
       /\ transactions[i].status = "CONFIRMED" /\ transactions[j].status = "CONFIRMED"
       /\ transactions[i].userId = transactions[j].userId
       /\ transactions[i].coin = transactions[j].coin
       /\ \A k \in TxIds :
            (transactions[k].type = "DEPOSIT" /\ transactions[k].status = "CONFIRMED")
              => transactions[k].amount < transactions[i].amount + transactions[j].amount
       /\ Cardinality({k \in TxIds : transactions[k].type = "DEPOSIT"}) = 1

\* --------------------------------------- properties of a failing scheduler run
\* the run in which operation op throws during the pass on the k-th loaded
\* membership
Failing(k, op) ==
  /\ k \in 1 .. Len(FindActive(memberships, 1))
  /\ UsesStore(memberships[FindActive(memberships, 1)[k]], now)
  /\ op \in StorageOps

\* C23: when a storage operation throws during the pass on one membership,
\* the memberships loaded after it are still processed as in a run without
\* the failure, the results array has an entry for the failed membership, and
\* the request answers 200.
C23_FailureStopsOneMembership ==
  \A k \in 1 .. MaxFailPurchases, op \in StorageOps :
    Failing(k, op) =>
      LET ids == FindActive(memberships, 1)
          out == CronPayoutsFailOut(ADMIN_KEY, k, op)
          whole == CronPayoutsOut(ADMIN_KEY)
      IN /\ out.response.status = 200
         /\ \E i \in 1 .. Len(out.response.results) :
              out.response.results[i].membership = ids[k]
         /\ \A j \in k + 1 .. Len(ids) :
              out.db.memberships[ids[j]] = whole.db.memberships[ids[j]]

\* two ACTIVE memberships are due today, Transaction.create throws during
\* the pass on the first, and the request answers 500 with the second one
\* left unpaid
C23_Witness ==
  /\ Len(FindActive(memberships, 1)) = 2
  /\ Failing(1, "Transaction.create") /\ Failing(2, "Transaction.create")
  /\ LET out == CronPayoutsFailOut(ADMIN_KEY, 1, "Transaction.create")
     IN /\ out.response.status = 500
        /\ out.response.results = <<>>
        /\ out.db = Db
        /\ CronPayoutsOut(ADMIN_KEY).db.memberships[2].daysPaid = memberships[2].daysPaid + 1

C25_ApproveWithdrawDeducts ==
  \A id \in TxIds : \A h \in Hashes \cup {"0xdef"} :
    LET tx == transactions[id]
        out == ApproveWithdrawOut(ADMIN_KEY, id, h)
    IN ( /\ tx.type = "WITHDRAW" /\ tx.status = "PENDING"
         /\ tx.userId \in UserIds
         /\ tx.amount <= Balance(users, tx.userId, tx.coin) )
       => /\ out.response.status = 200
          /\ out.db.transactions[id].status = "CONFIRMED"
          /\ Balance(out.db.users, tx.userId, tx.coin)
               = Balance(users, tx.userId, tx.coin) - tx.amount
          /\ out.db.transactions[id].meta.tx_hash = h
          /\ \A k \in DOMAIN tx.meta \ {"tx_hash"} :
               /\ k \in DOMAIN out.db.transactions[id].meta
               /\ out.db.transactions[id].meta[k] = tx.meta[k]
          /\ \A u \in UserIds : \A c \in COINS :
               (u # tx.userId \/ c # tx.coin)
                 => Balance(out.db.users, u, c) = Balance(users, u, c)
          /\ \A j \in TxIds \ {id} : out.db.transactions[j] = transactions[j]

\* a withdrawal of part of a balance has been approved: it is CONFIRMED with
\* its hash and the rest of the balance is still there
C25_Witness ==
  \E id \in TxIds :
    /\ transactions[id].type = "WITHDRAW" /\ transactions[id].status = "CONFIRMED"
    /\ "tx_hash" \in DOMAIN transactions[id].meta
    /\ transactions[id].amount = 1
    /\ Balance(users, transactions[id].userId, transactions[id].coin) = 1

\* C26: approve-withdraw on a CONFIRMED withdrawal answers ok and changes
\* nothing: no balance, no status, no metadata, whatever hash is sent, so a
\* second approval after a first deducts nothing more.
C26_ApproveConfirmedWithdrawIsNoOp ==
  \A id \in TxIds : \A h \in Hashes \cup {"0xdef"} :
    LET tx == transactions[id]
        out == ApproveWithdrawOut(ADMIN_KEY, id, h)
    IN (tx.type = "WITHDRAW" /\ tx.status = "CONFIRMED") =>
         /\ out.response.status = 200
         /\ out.response.message = "Already confirmed"
         /\ out.db = Db

\* a withdrawal was approved and deducted while the balance still covers its
\* amount, and an approval with another hash is answered "Already confirmed"
C26_Witness ==
  \E id \in TxIds :
    /\ transactions[id].type = "WITHDRAW"
    /\ transactions[id].status = "CONFIRMED"
    /\ transactions[id].meta.tx_hash = "0xabc"
    /\ Balance(users, transactions[id].userId, transactions[id].coin) >= transactions[id].amount
    /\ ApproveWithdrawOut(ADMIN_KEY, id, "0xdef").response.message = "Already confirmed"

\* ------------------------------------------------- properties of the session
\* what the endpoints behind the session gate answer
GatedOuts ==
  {ProfileOut, TransactionsOut}
    \cup {DepositOut(c, a, tier) : c \in {"BTC", "USDT", "USD"}, a \in 0 .. 2, tier \in {NoTier, "V1"}}
    \cup {WithdrawOut(c, a) : c \in {"BTC", "USDT", "USD"}, a \in 0 .. MaxBalance + 1}
    \cup {VerifyPaymentOut(id) : id \in 0 .. Len(transactions) + 1}
    \cup TransferOuts

\* a step that puts a userId into the session is a register or a login that
\* succeeded, for the user it names
SignsIn ==
  \/ \E i \in 1 .. Len(Credentials) :
       LET out == RegisterOut(Credentials[i][1], Credentials[i][2], "pw")
       IN out.response.status = 200 /\ session' = out.session /\ users' = out.db.users
  \/ \E i \in 1 .. Len(Credentials) :
       LET out == LoginOut(Credentials[i][2], "pw")
       IN /\ out.response.status = 200 /\ session' = out.session /\ users' = users
          /\ Compare("pw", users[session'].password)

\* C27: the session gets a userId only by a register or login that succeeded
\* and loses it only by logout; in a session without a userId every endpoint
\* behind the session gate answers 401 and changes nothing; a login with an
\* unknown identifier or a wrong password answers 401 and leaves the session
\* as it was.
C27_SessionGate ==
  /\ [](session # NoUser => session \in UserIds)
  /\ [](LogoutOut.session = NoUser /\ LogoutOut.db = Db)
  /\ [](session = NoUser =>
          \A out \in GatedOuts :
            out.response.status = 401 /\ out.db = Db /\ out.session = NoUser)
  /\ [](\A lookup \in {"a@x", "alice", "b@x", "bob", "carol"} : \A pw \in {"pw", "bad"} :
          LET out == LoginOut(lookup, pw)
              known == {i \in UserIds : users[i].email = lookup \/ users[i].username = lookup}
          IN (known = {} \/ pw # "pw") =>
               out.response.status = 401 /\ out.session = session /\ out.db = Db)
  /\ [][ session' # session =>
           IF session' = NoUser
             THEN <<users', transactions', memberships'>> = <<users, transactions, memberships>>
             ELSE SignsIn ]_vars

\* users and records exist, the session has been logged out, and a login
\* with a wrong password is answered 401 while the right one would sign in
C27_Witness ==
  /\ session = NoUser
  /\ Len(users) = 2
  /\ transactions # <<>>
  /\ LoginOut("bob", "bad").response.status = 401
  /\ LoginOut("bob", "pw").session = 2
  /\ DepositOut("BTC", 1, NoTier).response.status = 401

\* ------------------------------------ properties of the scalar-balance server
\* C28: in the scalar-balance server, approve-deposit on a deposit that is
\* already CONFIRMED does not credit the user's balance again.
C28_ScalarApproveDepositIdempotent ==
  \A id \in TxIds :
    LET tx == transactions[id]
        out == ScalarApproveDepositOut(ADMIN_KEY, id)
    IN (tx.type = "DEPOSIT" /\ tx.status = "CONFIRMED" /\ tx.userId \in UserIds)
         => out.db.users[tx.userId].balance = users[tx.userId].balance

\* the only record is a CONFIRMED deposit of 1 and the balance is 2: it was
\* approved twice and credited twice
C28_Witness ==
  /\ Len(transactions) = 1
  /\ transactions[1].type = "DEPOSIT" /\ transactions[1].status = "CONFIRMED"
  /\ transactions[1].amount = 1
  /\ users[transactions[1].userId].balance = 2

\* C29: in the scalar-balance server, approve-withdraw on a PENDING
\* withdrawal whose amount is above the user's balance makes it DECLINED, not
\* CONFIRMED, and leaves the balance as it was.
C29_ScalarApproveWithdrawDeclines ==
  \A id \in TxIds : \A h \in Hashes :
    LET tx == transactions[id]
        out == ScalarApproveWithdrawOut(ADMIN_KEY, id, h)
    IN ( /\ tx.type = "WITHDRAW" /\ tx.status = "PENDING"
         /\ tx.userId \in UserIds
         /\ tx.amount > users[tx.userId].balance )
       => /\ out.db.transactions[id].status = "DECLINED"
          /\ out.db.users[tx.userId].balance = users[tx.userId].balance

\* a PENDING withdrawal of 2 stands against a balance of 1, and its approval
\* confirms it and leaves a balance of 0
C29_Witness ==
  \E id \in TxIds :
    LET out == ScalarApproveWithdrawOut(ADMIN_KEY, id, "0xabc")
    IN /\ transactions[id].type = "WITHDRAW" /\ transactions[id].status = "PENDING"
       /\ transactions[id].amount = 2
       /\ users[transactions[id].userId].balance = 1
       /\ out.db.transactions[id].status = "CONFIRMED"
       /\ out.db.users[transactions[id].userId].balance = 0

\* ------------------------------------------- progress of the schedule
\* C30: with the scheduler invoked on every date, by runs that do not
\* overlap, every ACTIVE membership is eventually COMPLETED with
\* daysPaid = durationDays.
C30_ActiveLeadsToCompleted ==
  \A m \in 1 .. MaxPurchases :
    (m \in MembershipIds /\ memberships[m].status = "ACTIVE")
      ~> ( /\ m \in MembershipIds
           /\ memberships[m].status = "COMPLETED"
           /\ memberships[m].daysPaid = memberships[m].durationDays )

\* a membership of seven days has been paid on seven dates and is COMPLETED
C30_Witness ==
  \E m \in MembershipIds :
    /\ memberships[m].status = "COMPLETED"
    /\ memberships[m].durationDays = 7
    /\ memberships[m].daysPaid = 7
    /\ Cardinality({DateOf(transactions[i].createdAt) : i \in PayoutsOf(transactions, m)}) = 7

\* ------------------------------------------- properties of rejected approvals
\* C31: approve-deposit and approve-withdraw answer 400 to a request that
\* names no transaction, 404 to one that names an unknown transaction and 400
\* to one whose transaction has the wrong type, and in each case change no
\* status, no balance and no membership.
C31_ApprovalRejects ==
  \A id \in 0 .. Len(transactions) + 1 : \A h \in Hashes :
    LET dep == ApproveDepositOut(ADMIN_KEY, id)
        wd == ApproveWithdrawOut(ADMIN_KEY, id, h)
    IN /\ id = 0 =>
            /\ dep.response.status = 400 /\ dep.db = Db
            /\ wd.response.status = 400 /\ wd.db = Db
       /\ id = Len(transactions) + 1 =>
            /\ dep.response.status = 404 /\ dep.db = Db
            /\ wd.response.status = 404 /\ wd.db = Db
       /\ (id \in TxIds /\ transactions[id].type # "DEPOSIT") =>
            dep.response.status = 400 /\ dep.db = Db
       /\ (id \in TxIds /\ transactions[id].type # "WITHDRAW") =>
            wd.response.status = 400 /\ wd.db = Db

\* the ledger holds a PENDING withdrawal, a deposit and a transfer record,
\* and approve-deposit on the withdrawal is answered "Not a deposit"
C31_Witness ==
  \E i, j, k \in TxIds :
    /\ transactions[i].type = "WITHDRAW" /\ transactions[i].status = "PENDING"
    /\ transactions[j].type = "DEPOSIT"
    /\ transactions[k].type = "TRANSFER"
    /\ ApproveDepositOut(ADMIN_KEY, i).response.message = "Not a deposit"
    /\ ApproveWithdrawOut(ADMIN_KEY, j, "0xabc").response.message = "Not a withdraw"

\* ------------------------------------------------ properties of the ledger
RECURSIVE SumAmounts(_, _)
\* the sum of the amounts of the records ids of a ledger
SumAmounts(txs, ids) ==
  IF ids = {} THEN 0
  ELSE LET i == CHOOSE x \in ids : TRUE
       IN txs[i].amount + SumAmounts(txs, ids \ {i})

\* the DEPOSIT records of user u in coin c that are credited on approval:
\* those without a recognized membership tier
PlainDeposits(txs, u, c) ==
  {i \in 1 .. Len(txs) :
     /\ txs[i].type = "DEPOSIT" /\ txs[i].userId = u /\ txs[i].coin = c
     /\ ~(IsMembershipPurchase(txs[i].meta) /\ txs[i].meta.membershipTier \in DOMAIN TIERS)}

\* the DEPOSIT records that create a membership on approval
Purchases(txs) ==
  {i \in 1 .. Len(txs) :
     /\ txs[i].type = "DEPOSIT"
     /\ IsMembershipPurchase(txs[i].meta) /\ txs[i].meta.membershipTier \in DOMAIN TIERS}

\* the TRANSFER records of user u in coin c in one direction
Transfers(txs, u, c, direction) ==
  {i \in 1 .. Len(txs) :
     /\ txs[i].type = "TRANSFER" /\ txs[i].userId = u /\ txs[i].coin = c
     /\ txs[i].meta.direction = direction}

\* C32: whatever approve-deposit and decline-transaction calls are made on a
\* DEPOSIT, its amount is credited at most once and at most one Membership is
\* created from it: a balance never exceeds the amounts of the owner's
\* plain deposits plus the transfers received, and there are never more
\* memberships than membership purchases.
C32_DepositCreditedOnce ==
  /\ \A u \in UserIds : \A c \in ALLOWED :
       Balance(users, u, c) <= SumAmounts(transactions, PlainDeposits(transactions, u, c))
                                 + SumAmounts(transactions, Transfers(transactions, u, c, "RECEIVED"))
  /\ Len(memberships) <= Cardinality(Purchases(transactions))

\* the only record is a deposit of 1, approved, declined and approved again,
\* and the owner's balance is 2
C32_Witness ==
  /\ Len(transactions) = 1
  /\ transactions[1].type = "DEPOSIT" /\ transactions[1].status = "CONFIRMED"
  /\ ~HasTier(transactions[1].meta)
  /\ transactions[1].amount = 1
  /\ Balance(users, transactions[1].userId, transactions[1].coin) = 2

RECURSIVE TotalOf(_, _, _)
\* the sum of the balances of coin c over the first n users
TotalOf(us, c, n) == IF n = 0 THEN 0 ELSE us[n].balances[c] + TotalOf(us, c, n - 1)

\* C33: an internal-transfer call, accepted or rejected, leaves the sum of all
\* users' balances of every coin as it was, and a transfer to the sender's
\* own username leaves the sender's balance as it was.
C33_TransferConservesTotal ==
  \A r \in {"alice", "bob", "carol"}, a \in 0 .. MaxBalance + 1, c \in {"BTC", "USDT", "USD"} :
    LET out == InternalTransferOut(r, a, c) IN
    /\ \A k \in COINS :
         TotalOf(out.db.users, k, Len(out.db.users)) = TotalOf(users, k, Len(users))
    /\ (session \in UserIds /\ r = users[session].username) =>
         \A k \in COINS : Balance(out.db.users, session, k) = Balance(users, session, k)

\* a user holding 1 from one approved deposit has transferred 1 to their
\* own username and holds 2
C33_Witness ==
  /\ Len(transactions) = 3
  /\ transactions[1].type = "DEPOSIT" /\ transactions[1].amount = 1
  /\ transactions[2].type = "TRANSFER" /\ transactions[2].meta.direction = "SENT"
  /\ transactions[3].type = "TRANSFER" /\ transactions[3].meta.direction = "RECEIVED"
  /\ transactions[2].userId = transactions[3].userId
  /\ transactions[2].amount = 1
  /\ Balance(users, transactions[2].userId, transactions[2].coin) = 2

\* the records among ids that are CONFIRMED
ConfirmedOf(txs, ids) == {i \in ids : txs[i].status = "CONFIRMED"}

\* the records of user u with one of the types, in coin c
OfType(txs, u, c, types) ==
  {i \in 1 .. Len(txs) : txs[i].type \in types /\ txs[i].userId = u /\ txs[i].coin = c}

\* what the ledger says user u holds of coin c
LedgerBalance(txs, u, c) ==
  IF c = "USD"
    THEN SumAmounts(txs, OfType(txs, u, "USD", {"PAYOUT", "MEMBERSHIP_PAYOUT"}))
    ELSE SumAmounts(txs, ConfirmedOf(txs, PlainDeposits(txs, u, c)))
           - SumAmounts(txs, ConfirmedOf(txs, OfType(txs, u, c, {"WITHDRAW"})))
           + SumAmounts(txs, Transfers(txs, u, c, "RECEIVED"))
           - SumAmounts(txs, Transfers(txs, u, c, "SENT"))

\* C34: with handlers running one at a time, every stored balance agrees with
\* the ledger: a coin balance is the CONFIRMED plain deposits minus the
\* CONFIRMED withdrawals plus the transfers received minus the transfers
\* sent, and the USD balance is the sum of the payouts.
C34_BalancesAgreeWithLedger ==
  \A u \in UserIds : \A c \in COINS :
    Balance(users, u, c) = LedgerBalance(transactions, u, c)

\* the only record is a deposit that was approved and then declined: its
\* status is DECLINED and its amount is still on the owner's balance
C34_Witness ==
  /\ Len(transactions) = 1
  /\ transactions[1].type = "DEPOSIT" /\ transactions[1].status = "DECLINED"
  /\ ~HasTier(transactions[1].meta)
  /\ Balance(users, transactions[1].userId, transactions[1].coin) = transactions[1].amount
  /\ LedgerBalance(transactions, transactions[1].userId, transactions[1].coin) = 0

\* ------------------------------------------------ properties of the admin gate
\* the key of a request that carries none
NoKey == SuppliedKey(Undefined, Undefined, Undefined)

\* C35: a request that supplies no admin key is rejected with 401 under
\* every configuration of the server, also when ADMIN_KEY is not set, and
\* changes nothing.
C35_NoKeyRejected ==
  /\ ~requireAdmin(NoKey)
  /\ \A id \in 0 .. Len(transactions) + 1 :
       /\ ApproveDepositOut(NoKey, id).response.status = 401
       /\ ApproveDepositOut(NoKey, id).db = Db
       /\ ApproveWithdrawOut(NoKey, id, "0xabc").response.status = 401
       /\ DeclineTransactionOut(NoKey, id).response.status = 401
  /\ CronPayoutsOut(NoKey).response.status = 401
  /\ PendingDepositsOut(NoKey).response.status = 401

\* ADMIN_KEY is not set, a deposit is PENDING, and approve-deposit without
\* any key confirms and credits it
C35_Witness ==
  /\ env = Undefined
  /\ \E id \in TxIds :
       LET out == ApproveDepositOut(NoKey, id) IN
       /\ transactions[id].type = "DEPOSIT" /\ transactions[id].status = "PENDING"
       /\ ~HasTier(transactions[id].meta)
       /\ out.response.status = 200
       /\ out.db.transactions[id].status = "CONFIRMED"
       /\ Balance(out.db.users, transactions[id].userId, transactions[id].coin)
            = Balance(users, transactions[id].userId, transactions[id].coin) + transactions[id].amount

\* ---------------------------------- properties of overlapping requests
\* C36: no stored balance is negative, whatever the order in which the reads
\* and saves of overlapping approve-withdraw, approve-deposit,
\* internal-transfer and payout requests on one user reach the store.
C36_NoNegativeBalance ==
  \A u \in UserIds : \A c \in COINS : Balance(users, u, c) >= 0

\* requests overlap on one balance: an approve-withdraw holds a balance of 1
\* it read before an internal-transfer saved the sender's balance as 0, and
\* is about to save its own result over it
C36_Witness ==
  \E r \in 1 .. Len(approvals) : \E t \in 1 .. Len(transfers) :
    /\ approvals[r].at = "user.save"
    /\ transfers[t].at = "receiver.save"
    /\ approvals[r].tx.userId = transfers[t].sender
    /\ approvals[r].tx.coin = transfers[t].coin
    /\ approvals[r].current = 1
    /\ Balance(users, transfers[t].sender, transfers[t].coin) = 0

\* ------------------------------------------ properties of the schedule's end
\* the branch a pass on membership i would take now
Pass(i) == PayoutOne(i, memberships[i], Db, <<>>, now)

\* C37: when scheduler runs do not overlap, every ACTIVE membership has
\* daysPaid < durationDays, so a pass of the scheduler on it either skips it
\* as already paid today or pays the day: it never takes the branch for
\* daysPaid >= durationDays.
C37_ActiveIsUnfinished ==
  \A i \in MembershipIds :
    memberships[i].status = "ACTIVE" =>
      /\ memberships[i].daysPaid < memberships[i].durationDays
      /\ ~(~PaidToday(memberships[i].lastPayout, now)
           /\ Reached(memberships[i].daysPaid, memberships[i].durationDays))
      /\ Len(Pass(i).results) = 1
      /\ \/ Pass(i).results[1].skipped = "already paid today"
         \/ /\ Pass(i).results[1].skipped = ""
            /\ Pass(i).results[1].bonusTx = 0
            /\ Pass(i).results[1].daysPaid = memberships[i].daysPaid + 1

\* an ACTIVE membership is one day short of its duration and has not been
\* paid today: the next pass pays its last day, and the one the day before
\* left it ACTIVE
C37_Witness ==
  \E i \in MembershipIds :
    /\ memberships[i].status = "ACTIVE"
    /\ memberships[i].daysPaid = memberships[i].durationDays - 1
    /\ ~PaidToday(memberships[i].lastPayout, now)
    /\ Pass(i).db.memberships[i].status = "COMPLETED"

\* ------------------------------------------------ properties of USD balances
\* C38: a user's USD balance never decreases: no WITHDRAW or TRANSFER record
\* in USD exists, since deposit, withdraw and internal-transfer reject the
\* coin, and a step that changes a USD balance is a credit of the scheduler.
C38_UsdNeverDecreases ==
  [][/\ \A u \in UserIds : Balance(users', u, "USD") >= Balance(users, u, "USD")
     /\ \A i \in 1 .. Len(transactions') :
          transactions'[i].type \in {"WITHDRAW", "TRANSFER"} => transactions'[i].coin # "USD"]_vars

\* a pass of one scheduler request holds a USD balance it read before the
\* passes of other requests credited the user twice: its save will store
\* less than the store holds
C38_Witness ==
  \E r \in 1 .. Len(runs) :
    LET m == Doc(Head(runs[r].todo)) IN
      /\ runs[r].at = "user.save"
      /\ Credit(Read(users, m.userId, runs[r]), m.dailyAmount) < Balance(users, m.userId, "USD")
      /\ \A i \in 1 .. Len(transactions) :
           transactions[i].type \in {"WITHDRAW", "TRANSFER"} => transactions[i].coin # "USD"

\* ------------------------------------------------ properties of verify-payment
\* the answer carries nothing of the record: no status, no coin, no amount
RevealsNothing(out) ==
  /\ out.response.results = <<>>
  /\ out.response.message \notin {"PENDING", "CONFIRMED", "DECLINED"}

\* C39: verify-payment gives the status, coin and amount of a transaction to
\* the logged-in user who owns it and to nobody else: for the id of another
\* user's transaction the answer of the per-coin-balance server reveals none
\* of them, and the ledger-aggregate server answers 403.
C39_VerifyOnlyOwner ==
  \A id \in TxIds :
    transactions[id].userId # session =>
      /\ RevealsNothing(VerifyPaymentOut(id))
      /\ RevealsNothing(LedgerVerifyPaymentOut(id, transactions[id].coin))
      /\ needAuth => LedgerVerifyPaymentOut(id, transactions[id].coin).response.status = 403

\* a logged-in user asks for another user's deposit: the per-coin-balance
\* server answers 200 with its status, coin and amount, the ledger-aggregate
\* server 403
C39_Witness ==
  \E id \in TxIds :
    /\ needAuth
    /\ transactions[id].userId # session
    /\ transactions[id].type = "DEPOSIT"
    /\ VerifyPaymentOut(id).response.status = 200
    /\ VerifyPaymentOut(id).response.message = transactions[id].status
    /\ VerifyPaymentOut(id).response.results[1].amount = transactions[id].amount
    /\ LedgerVerifyPaymentOut(id, "BTC").response.status = 403

\* ------------------------------------------------ properties of the chart page
\* C40: at most one live-update interval is active at any time: every
\* interval that an earlier loadChartData call created has been cleared, also
\* when a call starts while the chart fetch of another is pending.
C40_OneLiveInterval ==
  /\ Cardinality(page.timers) <= 1
  /\ \A t \in page.timers : t.id = page.liveInterval

\* two calls overlapped and both fetches are answered: two intervals run,
\* liveInterval names the later one, and the chart takes prices of a coin
\* that is no longer selected
C40_Witness ==
  /\ page.pending = <<>>
  /\ \E t, u \in page.timers :
       /\ t.id # u.id
       /\ u.id = page.liveInterval
       /\ t.coinId # page.selectedCoin
       /\ page.fed = t.coinId

====
